---- MODULE Spec2Model ----
(***************************************************************************)
(* Model of src/src/isolate/environment.cc (isolated-vm): the             *)
(* IsolateEnvironment with its Scheduler (status, four queues, dispatch   *)
(* to the thread pool or to the default thread's uv_async handle) and its *)
(* Executor (the v8::Locker taken by Executor::Lock).                      *)
(*                                                                         *)
(* Threads are the default thread "main" (libuv loop) and the pool        *)
(* threads.  Every Scheduler::Lock section is explicit: mutex[e] names    *)
(* the thread inside it.  A Runnable is opaque; while one runs, its       *)
(* thread may open Scheduler::Lock sections, run a HeapCheck, and the     *)
(* engine may call back (interrupt callbacks, GC epilogue).               *)
(***************************************************************************)
EXTENDS Naturals, Sequences, FiniteSets

\* ---------------------------------------------------------------- bounds
\* Number of Push* calls in one behaviour (each pushed item gets the next id).
MaxPush == 3
\* Cap on pending v8 RequestInterrupt callbacks per environment.
MaxInterruptRequests == 1
\* Largest used_heap_size() the engine reports, and largest extra_allocated_memory.
MaxHeap == 2
MaxExtra == 1
\* IsolateCtor's memory_limit and the misc_memory_size it computes, per sandbox.
MemoryLimit == 1
MiscMemorySize == 1
\* Number of Persistent handles the callers register weak callbacks for.
MaxHandles == 2
\* Executor scopes (Lock, Unlock, Scope) alive at once on the default thread and
\* on a pool thread, and the last reading of the discrete clock.
MaxDepth == 3
MaxPoolDepth == 1
MaxClock == 2
\* Number of AsyncWait objects constructed one after the other.
MaxWaits == 3
\* memory_limit + misc_memory_size of an environment whose GC epilogues are looked
\* at in detail, in units fine enough to tell 80% of the limit from 100%.
EpilogueLimit == 10

\* ------------------------------------------------------------- carriers
Envs == {"root", "iso"}
PoolThreads == {"p1", "p2"}
DefaultThread == "main"
Threads == {DefaultThread} \cup PoolThreads
NoThread == "none"
NoEnv == "nullptr"
Kinds == {"async", "sync"}
Handles == 1..MaxHandles
Params == {"a", "b"}
GCFlags == SUBSET {"collect_all", "forced"}
Sandbox == "iso"

VARIABLES
  status,            \* Scheduler::status per environment
  tasks,             \* Scheduler::tasks
  handle_tasks,      \* Scheduler::handle_tasks
  interrupts,        \* Scheduler::interrupts
  sync_interrupts,   \* Scheduler::sync_interrupts
  mutex,             \* Scheduler::mutex: the thread inside a Scheduler::Lock
  uv_ref_count,      \* Scheduler::uv_ref_count
  root_async,        \* Scheduler::root_async: data slot, pending send, ref state
  thread_pool,       \* work items handed to thread_pool.exec, per environment
  locker,            \* v8::Locker of the isolate, held through Executor::Lock
  interrupt_requests,\* pending isolate->RequestInterrupt callbacks
  hit_memory_limit,  \* IsolateEnvironment::hit_memory_limit
  extra_allocated_memory, \* IsolateEnvironment::extra_allocated_memory
  memory_pressure,   \* IsolateEnvironment::memory_pressure
  did_adjust_heap_limit, \* IsolateEnvironment::did_adjust_heap_limit
  terminated,        \* IsolateEnvironment::terminated
  terminate_execution, \* isolate->TerminateExecution() was called
  holder_isolate,    \* holder->isolate still references the environment
  inspector_agent,   \* IsolateEnvironment::inspector_agent: none, attached, terminated
  weak_persistents,  \* IsolateEnvironment::weak_persistents: handle -> <<fn, param>>
  call,              \* the last API call and whether it threw std::logic_error
  pc,                \* position of each thread
  cur,               \* environment of the pass a thread executes
  batch,             \* AsyncEntry's local queues
  ie,                \* InterruptEntry's local queue and its Take kind
  woke,              \* result of the thread's last WakeIsolate in this section
  npush,             \* number of pushes made so far (next item id - 1)
  ran,               \* per environment, the items whose Run() was called, in order
  failed             \* assertions that failed (the process aborts)

VARIABLES
  owners,            \* shared_ptr<IsolateEnvironment> copies held by calling code
  destroying,        \* per thread, the environment whose destructor it runs
  isolate_map,       \* bookkeeping_statics->isolate_map: the registered environments
  disposed,          \* isolate->Dispose() was called
  invoked,           \* per environment, the weak callbacks the destructor invoked
  snapshot           \* per environment, what was registered and queued when its
                     \* destructor started

VARIABLES
  current_env,       \* Executor::current_env (thread_local)
  current,           \* Executor::Lock::current (thread_local): depth of that Lock
  cpu_timer_thread,  \* Executor::cpu_timer_thread (thread_local): depth of that timer
  scopes,            \* per thread, its live Lock, Unlock and Scope objects, outermost first
  cpu_time,          \* Executor::cpu_time
  cpu_timer,         \* Executor::cpu_timer: the environment's active CpuTimer
  wall_time,         \* Executor::wall_time
  wall_timer,        \* Executor::wall_timer: the environment's active WallTimer
  now,               \* the clock read by Now() and steady_clock::now()
  held_time          \* per environment, the clock time for which a thread held its
                     \* Lock un-paused

VARIABLES
  async_wait,        \* Scheduler::async_wait points to a live AsyncWait
  ready,             \* AsyncWait::ready
  done,              \* AsyncWait::done
  wait_mutex,        \* Scheduler::wait_mutex: who holds it
  wpc,               \* positions of the thread in Wait(), in Ready() and in Wake()
  nwaits             \* AsyncWait objects constructed so far

VARIABLES
  gc_call            \* the last call of MarkSweepCompactEpilogue: what it was given
                     \* and what it did

sched == <<status, tasks, handle_tasks, interrupts, sync_interrupts, mutex>>
statics == <<uv_ref_count, root_async, thread_pool>>
memstate == <<hit_memory_limit, extra_allocated_memory, memory_pressure,
              did_adjust_heap_limit>>
termstate == <<terminated, terminate_execution, holder_isolate, inspector_agent>>
apistate == <<weak_persistents, call>>
envstate == <<memstate, termstate, apistate>>
engine == <<locker, interrupt_requests>>
locals == <<pc, cur, batch, ie, woke>>
hist == <<npush, ran>>
life == <<owners, destroying, isolate_map, disposed, invoked, snapshot>>
exec == <<current_env, current, cpu_timer_thread, scopes, cpu_time, cpu_timer,
          wall_time, wall_timer, now, held_time>>
waitstate == <<async_wait, ready, done, wait_mutex, wpc, nwaits>>
ext == <<life, exec, waitstate, gc_call>>
notlife == <<exec, waitstate, gc_call>>
notexec == <<life, waitstate, gc_call>>
notwait == <<life, exec, gc_call>>
notgc == <<life, exec, waitstate>>
vars == <<sched, statics, envstate, engine, locals, hist, failed, ext>>

\* IsolateEnvironment::root
Root(e) == e = "root"

\* No API call made yet
NoCall == [op |-> "none", env |-> NoEnv, handle |-> 0, threw |-> FALSE]

EmptyBatch == [interrupts |-> <<>>, handle_tasks |-> <<>>, tasks |-> <<>>]
NoIe == [q |-> <<>>, kind |-> "none"]
\* The thread runs no destructor
NoDtor == [env |-> NoEnv, agent_ptr |-> "none", it |-> 0, back |-> "idle"]
NoSnapshot == [started |-> FALSE, weak |-> {}, queued |-> {}]

\* A pointer to the CpuTimer or WallTimer of the Lock at depth d of thread t
Timer(t, d) == [thread |-> t, depth |-> d]
NoTimer == [thread |-> NoThread, depth |-> 0]

\* Executor::Init ran on the default thread: current_env is the root environment
\* there; no Lock exists and no timer runs.
ExecInit ==
  /\ current_env = [t \in Threads |-> IF t = DefaultThread THEN "root" ELSE NoEnv]
  /\ current = [t \in Threads |-> 0]
  /\ cpu_timer_thread = [t \in Threads |-> 0]
  /\ scopes = [t \in Threads |-> <<>>]
  /\ cpu_time = [e \in Envs |-> 0]
  /\ cpu_timer = [e \in Envs |-> NoTimer]
  /\ wall_time = [e \in Envs |-> 0]
  /\ wall_timer = [e \in Envs |-> NoTimer]
  /\ now = 0
  /\ held_time = [e \in Envs |-> 0]

\* MarkSweepCompactEpilogue has not been called.
NoGcCall == [called |-> FALSE]

\* The threads that use an AsyncWait: the one that constructs it and calls Wait(),
\* the caller of Ready() and the caller of Wake()
WaitRoles == {"wait", "ready", "wake"}

\* No AsyncWait exists yet.
WaitInit ==
  /\ async_wait = FALSE
  /\ ready = FALSE
  /\ done = FALSE
  /\ wait_mutex = NoThread
  /\ wpc = [r \in WaitRoles |-> "none"]
  /\ nwaits = 0

\* Both environments are constructed (IsolateCtor registers them); calling code
\* holds one reference to each besides the holder's.
LifeInit ==
  /\ owners = [e \in Envs |-> 1]
  /\ destroying = [t \in Threads |-> NoDtor]
  /\ isolate_map = Envs
  /\ disposed = [e \in Envs |-> FALSE]
  /\ invoked = [e \in Envs |-> <<>>]
  /\ snapshot = [e \in Envs |-> NoSnapshot]

Init ==
  /\ status = [e \in Envs |-> "Waiting"]
  /\ tasks = [e \in Envs |-> <<>>]
  /\ handle_tasks = [e \in Envs |-> <<>>]
  /\ interrupts = [e \in Envs |-> <<>>]
  /\ sync_interrupts = [e \in Envs |-> <<>>]
  /\ mutex = [e \in Envs |-> NoThread]
  /\ uv_ref_count = 0
  /\ root_async = [data |-> NoEnv, sent |-> FALSE, ref |-> FALSE]
  /\ thread_pool = [e \in Envs |-> 0]
  /\ locker = [e \in Envs |-> NoThread]
  /\ interrupt_requests = [e \in Envs |-> [k \in Kinds |-> 0]]
  /\ hit_memory_limit = [e \in Envs |-> FALSE]
  /\ extra_allocated_memory = [e \in Envs |-> 0]
  /\ memory_pressure = [e \in Envs |-> "kNone"]
  /\ did_adjust_heap_limit = [e \in Envs |-> FALSE]
  /\ terminated = [e \in Envs |-> FALSE]
  /\ terminate_execution = [e \in Envs |-> FALSE]
  /\ holder_isolate = [e \in Envs |-> TRUE]
  /\ inspector_agent = [e \in Envs |-> "none"]
  /\ weak_persistents = [e \in Envs |-> <<>>]
  /\ call = NoCall
  /\ pc = [t \in Threads |-> "idle"]
  /\ cur = [t \in Threads |-> NoEnv]
  /\ batch = [t \in Threads |-> EmptyBatch]
  /\ ie = [t \in Threads |-> NoIe]
  /\ woke = [t \in Threads |-> "none"]
  /\ npush = 0
  /\ ran = [e \in Envs |-> <<>>]
  /\ failed = {}
  /\ LifeInit
  /\ ExecInit
  /\ WaitInit
  /\ gc_call = NoGcCall

\* --------------------------------------------------------------- helpers
\* A thread executes caller code: the default thread between libuv callbacks, or
\* any thread inside Runnable::Run().
InUserCode(t) == pc[t] = "running" \/ (t = DefaultThread /\ pc[t] = "idle")

\* The thread is inside some Scheduler::Lock section.
HoldsMutex(t) == \E e \in Envs : mutex[e] = t

\* The thread is inside a Scheduler::Lock section that caller code opened on e.
InSection(t, e) == mutex[e] = t /\ InUserCode(t)

\* The process has not aborted.
ProcessAlive == failed = {}

\* Faulty dispatch: WakeIsolate hands a plain pointer to the work item, so that
\* only the holder and calling code keep the environment alive.
StrongRefs_Weak(e) == owners[e] + (IF holder_isolate[e] THEN 1 ELSE 0)

\* use_count() of the environment's shared_ptr: the holder's reference, the copies
\* of calling code, the copy WakeIsolate moved into each work item in flight
\* (thread pool or root_async.data), and the isolate_ptr that AsyncCallbackCommon
\* holds until AsyncEntry has returned.
StrongRefs(e) ==
  owners[e] + (IF holder_isolate[e] THEN 1 ELSE 0) + thread_pool[e]
  + (IF root_async.data = e THEN 1 ELSE 0)
  + Cardinality({t \in Threads : cur[t] = e /\ pc[t] \notin {"idle", "unref", "aborted"}
                                  /\ destroying[t].env = NoEnv})

\* The thread can name the environment: calling code holds a reference to it, or
\* the thread runs an item of it.
Referenced(t, e) == owners[e] > 0 \/ (cur[t] = e /\ pc[t] = "running")

\* assert(cond): a failed assertion aborts the process: no thread takes another
\* step, the rest of the state is left as it was.
AssertFails(name) ==
  /\ failed' = failed \cup {name}
  /\ pc' = [t \in Threads |-> "aborted"]
  /\ mutex' = [e \in Envs |-> "aborted"]
  /\ UNCHANGED <<status, tasks, handle_tasks, interrupts, sync_interrupts,
                 statics, envstate, engine, cur, batch, ie, woke, hist, ext>>

\* ------------------------------------------------- Scheduler::Lock section
\* Scheduler::Lock::Lock: lock(scheduler.mutex)
SchedulerLock(t, e) ==
  /\ InUserCode(t)
  /\ Referenced(t, e)
  /\ ~HoldsMutex(t)
  /\ mutex[e] = NoThread
  /\ mutex' = [mutex EXCEPT ![e] = t]
  /\ woke' = [woke EXCEPT ![t] = "none"]
  /\ UNCHANGED <<status, tasks, handle_tasks, interrupts, sync_interrupts,
                 statics, envstate, engine, pc, cur, batch, ie, hist, failed, ext>>

\* Faulty ~Lock: leaving the section also resets status to Waiting.
SchedulerUnlock_ResetsStatus(t, e) ==
  /\ InSection(t, e)
  /\ mutex' = [mutex EXCEPT ![e] = NoThread]
  /\ woke' = [woke EXCEPT ![t] = "none"]
  /\ status' = [status EXCEPT ![e] = "Waiting"]
  /\ UNCHANGED <<tasks, handle_tasks, interrupts, sync_interrupts,
                 statics, envstate, engine, pc, cur, batch, ie, hist, failed, ext>>

\* Scheduler::Lock::~Lock
SchedulerUnlock(t, e) ==
  /\ InSection(t, e)
  /\ mutex' = [mutex EXCEPT ![e] = NoThread]
  /\ woke' = [woke EXCEPT ![t] = "none"]
  /\ UNCHANGED <<status, tasks, handle_tasks, interrupts, sync_interrupts,
                 statics, envstate, engine, pc, cur, batch, ie, hist, failed, ext>>

\* The Runnable handed to a Push* call: the next fresh item.
NewItem(q) == [q |-> q, id |-> npush + 1]

PushTask(t, e) ==
  /\ InSection(t, e)
  /\ npush < MaxPush
  /\ tasks' = [tasks EXCEPT ![e] = Append(@, NewItem("task"))]
  /\ npush' = npush + 1
  /\ UNCHANGED <<status, handle_tasks, interrupts, sync_interrupts, mutex,
                 statics, envstate, engine, locals, ran, failed, ext>>

PushHandleTask(t, e) ==
  /\ InSection(t, e)
  /\ npush < MaxPush
  /\ handle_tasks' = [handle_tasks EXCEPT ![e] = Append(@, NewItem("handle_task"))]
  /\ npush' = npush + 1
  /\ UNCHANGED <<status, tasks, interrupts, sync_interrupts, mutex,
                 statics, envstate, engine, locals, ran, failed, ext>>

PushInterrupt(t, e) ==
  /\ InSection(t, e)
  /\ npush < MaxPush
  /\ interrupts' = [interrupts EXCEPT ![e] = Append(@, NewItem("interrupt"))]
  /\ npush' = npush + 1
  /\ UNCHANGED <<status, tasks, handle_tasks, sync_interrupts, mutex,
                 statics, envstate, engine, locals, ran, failed, ext>>

PushSyncInterrupt(t, e) ==
  /\ InSection(t, e)
  /\ npush < MaxPush
  /\ sync_interrupts' = [sync_interrupts EXCEPT ![e] = Append(@, NewItem("sync_interrupt"))]
  /\ npush' = npush + 1
  /\ UNCHANGED <<status, tasks, handle_tasks, interrupts, mutex,
                 statics, envstate, engine, locals, ran, failed, ext>>

\* Scheduler::IncrementUvRef: the asserted condition and the value of root_async.ref
IncrementUvRefOk(t) == uv_ref_count + 1 = 1 => t = DefaultThread
IncrementUvRefRef == IF uv_ref_count + 1 = 1 THEN TRUE ELSE root_async.ref

\* Faulty dispatch: the work item is handed over but status stays Waiting.
WakeDispatch_NoStatus(t, e) ==
  /\ uv_ref_count' = uv_ref_count + 1
  /\ root_async' = [root_async EXCEPT !.ref = IncrementUvRefRef]
  /\ thread_pool' = [thread_pool EXCEPT ![e] = @ + 1]
  /\ woke' = [woke EXCEPT ![t] = "true"]
  /\ UNCHANGED <<sched, envstate, engine, pc, cur, batch, ie, hist, failed, ext>>

\* Scheduler::Lock::WakeIsolate, the branch taken when status is Waiting
WakeDispatch(t, e) ==
  IF ~IncrementUvRefOk(t) THEN AssertFails("IncrementUvRef")
  ELSE IF Root(e) /\ root_async.data # NoEnv THEN AssertFails("root_async.data")
  ELSE
    /\ status' = [status EXCEPT ![e] = "Running"]
    /\ uv_ref_count' = uv_ref_count + 1
    /\ IF Root(e)
         THEN /\ root_async' = [data |-> e, sent |-> TRUE, ref |-> IncrementUvRefRef]
              /\ UNCHANGED thread_pool
         ELSE /\ root_async' = [root_async EXCEPT !.ref = IncrementUvRefRef]
              /\ thread_pool' = [thread_pool EXCEPT ![e] = @ + 1]
    /\ woke' = [woke EXCEPT ![t] = "true"]
    /\ UNCHANGED <<tasks, handle_tasks, interrupts, sync_interrupts, mutex,
                   envstate, engine, pc, cur, batch, ie, hist, failed, ext>>

\* Faulty WakeIsolate: an environment that hit its memory limit is dispatched
\* again although its status is Running.
WakeIsolate_AfterLimit(t, e) ==
  /\ InSection(t, e)
  /\ IF status[e] = "Waiting" \/ hit_memory_limit[e]
       THEN WakeDispatch(t, e)
       ELSE /\ woke' = [woke EXCEPT ![t] = "false"]
            /\ UNCHANGED <<sched, statics, envstate, engine, pc, cur, batch, ie,
                           hist, failed, ext>>

\* Faulty WakeIsolate: dispatches whatever the status is.
WakeIsolate_Always(t, e) ==
  /\ InSection(t, e)
  /\ uv_ref_count' = uv_ref_count + 1
  /\ status' = [status EXCEPT ![e] = "Running"]
  /\ root_async' = [root_async EXCEPT !.ref = IncrementUvRefRef]
  /\ thread_pool' = [thread_pool EXCEPT ![e] = @ + 1]
  /\ woke' = [woke EXCEPT ![t] = "true"]
  /\ UNCHANGED <<tasks, handle_tasks, interrupts, sync_interrupts, mutex,
                 envstate, engine, pc, cur, batch, ie, hist, failed, ext>>

\* Scheduler::Lock::WakeIsolate
WakeIsolate(t, e) ==
  /\ InSection(t, e)
  /\ IF status[e] = "Waiting"
       THEN WakeDispatch(t, e)
       ELSE /\ woke' = [woke EXCEPT ![t] = "false"]
            /\ UNCHANGED <<sched, statics, envstate, engine, pc, cur, batch, ie,
                           hist, failed, ext>>

\* Callers request an interrupt only after WakeIsolate returned false in the same
\* Scheduler::Lock section.
InterruptProtocol(t) == woke[t] = "false"

\* Scheduler::Lock::InterruptIsolate
InterruptIsolate(t, e) ==
  /\ InSection(t, e)
  /\ InterruptProtocol(t)
  /\ interrupt_requests[e]["async"] < MaxInterruptRequests
  /\ IF status[e] # "Running" THEN AssertFails("InterruptIsolate")
     ELSE /\ interrupt_requests' = [interrupt_requests EXCEPT ![e]["async"] = @ + 1]
          /\ UNCHANGED <<sched, statics, envstate, locker, locals, hist, failed, ext>>

\* Scheduler::Lock::InterruptSyncIsolate
InterruptSyncIsolate(t, e) ==
  /\ InSection(t, e)
  /\ interrupt_requests[e]["sync"] < MaxInterruptRequests
  /\ interrupt_requests' = [interrupt_requests EXCEPT ![e]["sync"] = @ + 1]
  /\ UNCHANGED <<sched, statics, envstate, locker, locals, hist, failed, ext>>

\* ------------------------------------------------------------- dispatch
\* Faulty pool: the work item is taken off the pool's queue and dropped.
AsyncCallbackNonDefaultIsolate_Drop(t, e) ==
  /\ t \in PoolThreads
  /\ pc[t] = "idle"
  /\ thread_pool[e] > 0
  /\ thread_pool' = [thread_pool EXCEPT ![e] = @ - 1]
  /\ UNCHANGED <<sched, uv_ref_count, root_async, envstate, engine, locals, hist,
                 failed, ext>>

\* thread_pool.exec(..., AsyncCallbackNonDefaultIsolate, ptr): an idle pool thread
\* picks the work item up and enters AsyncCallbackCommon -> AsyncEntry.
AsyncCallbackNonDefaultIsolate(t, e) ==
  /\ t \in PoolThreads
  /\ pc[t] = "idle"
  /\ thread_pool[e] > 0
  /\ thread_pool' = [thread_pool EXCEPT ![e] = @ - 1]
  /\ pc' = [pc EXCEPT ![t] = "entry"]
  /\ cur' = [cur EXCEPT ![t] = e]
  /\ UNCHANGED <<sched, uv_ref_count, root_async, envstate, engine, batch, ie,
                 woke, hist, failed, ext>>

\* Faulty callback: the data slot is read but not cleared.
AsyncCallbackDefaultIsolate_KeepsData(t) ==
  /\ t = DefaultThread
  /\ pc[t] = "idle"
  /\ ~HoldsMutex(t)
  /\ root_async.sent
  /\ mutex["root"] = NoThread
  /\ IF root_async.data = NoEnv
       THEN /\ root_async' = [root_async EXCEPT !.sent = FALSE,
                                !.ref = IF uv_ref_count = 0 THEN FALSE ELSE @]
            /\ UNCHANGED <<pc, cur>>
       ELSE /\ root_async' = [root_async EXCEPT !.sent = FALSE]
            /\ pc' = [pc EXCEPT ![t] = "entry"]
            /\ cur' = [cur EXCEPT ![t] = root_async.data]
  /\ UNCHANGED <<sched, uv_ref_count, thread_pool, envstate, engine, batch, ie,
                 woke, hist, failed, ext>>

\* Faulty callback: the branch for an empty data slot never unrefs the handle.
AsyncCallbackDefaultIsolate_NoUnref(t) ==
  /\ t = DefaultThread
  /\ pc[t] = "idle"
  /\ ~HoldsMutex(t)
  /\ root_async.sent
  /\ mutex["root"] = NoThread
  /\ IF root_async.data = NoEnv
       THEN /\ root_async' = [root_async EXCEPT !.sent = FALSE]
            /\ UNCHANGED <<pc, cur>>
       ELSE /\ root_async' = [root_async EXCEPT !.sent = FALSE, !.data = NoEnv]
            /\ pc' = [pc EXCEPT ![t] = "entry"]
            /\ cur' = [cur EXCEPT ![t] = root_async.data]
  /\ UNCHANGED <<sched, uv_ref_count, thread_pool, envstate, engine, batch, ie,
                 woke, hist, failed, ext>>

\* Scheduler::AsyncCallbackDefaultIsolate: libuv runs the async callback on the
\* default thread after uv_async_send; the data slot is read under the default
\* scheduler's lock.
AsyncCallbackDefaultIsolate(t) ==
  /\ t = DefaultThread
  /\ pc[t] = "idle"
  /\ ~HoldsMutex(t)
  /\ root_async.sent
  /\ mutex["root"] = NoThread
  /\ IF root_async.data = NoEnv
       THEN /\ root_async' = [root_async EXCEPT !.sent = FALSE,
                                !.ref = IF uv_ref_count = 0 THEN FALSE ELSE @]
            /\ UNCHANGED <<pc, cur>>
       ELSE /\ root_async' = [root_async EXCEPT !.sent = FALSE, !.data = NoEnv]
            /\ pc' = [pc EXCEPT ![t] = "entry"]
            /\ cur' = [cur EXCEPT ![t] = root_async.data]
  /\ UNCHANGED <<sched, uv_ref_count, thread_pool, envstate, engine, batch, ie,
                 woke, hist, failed, ext>>

\* Executor::Lock::Lock in AsyncEntry: blocks in v8::Locker until the isolate is free.
ExecutorLock(t) ==
  /\ pc[t] = "entry"
  /\ locker[cur[t]] = NoThread
  /\ locker' = [locker EXCEPT ![cur[t]] = t]
  /\ pc' = [pc EXCEPT ![t] = "take"]
  /\ UNCHANGED <<sched, statics, envstate, interrupt_requests, cur, batch, ie,
                 woke, hist, failed, ext>>

\* AsyncEntry: `Scheduler::Lock lock(scheduler);` at the top of its loop
AsyncEntryLock(t) ==
  /\ pc[t] = "take"
  /\ mutex[cur[t]] = NoThread
  /\ mutex' = [mutex EXCEPT ![cur[t]] = t]
  /\ pc' = [pc EXCEPT ![t] = "taking"]
  /\ UNCHANGED <<status, tasks, handle_tasks, interrupts, sync_interrupts,
                 statics, envstate, engine, cur, batch, ie, woke, hist, failed, ext>>

\* Scheduler::Lock::DoneRunning: the asserted condition
DoneRunningOk(e) == status[e] = "Running"

\* Faulty test: only the tasks queue is looked at.
NothingTaken_TasksOnly(e) == tasks[e] = <<>>

\* AsyncEntry: `tasks.empty() && handle_tasks.empty() && interrupts.empty()` on the
\* three queues just taken
NothingTaken(e) == tasks[e] = <<>> /\ handle_tasks[e] = <<>> /\ interrupts[e] = <<>>

\* AsyncEntry, inside the Scheduler::Lock section: TakeTasks, TakeHandleTasks,
\* TakeInterrupts, and DoneRunning + return when all three are empty; the lock
\* is released on leaving the block.
TakeQueues(t) ==
  LET e == cur[t] IN
  /\ pc[t] = "taking"
  /\ mutex[e] = t
  /\ IF NothingTaken(e)
       THEN IF ~DoneRunningOk(e) THEN AssertFails("DoneRunning")
            ELSE /\ status' = [status EXCEPT ![e] = "Waiting"]
                 /\ mutex' = [mutex EXCEPT ![e] = NoThread]
                 /\ pc' = [pc EXCEPT ![t] = "exit"]
                 /\ UNCHANGED <<tasks, handle_tasks, interrupts, sync_interrupts,
                                statics, envstate, engine, cur, batch, ie,
                                woke, hist, failed, ext>>
       ELSE /\ batch' = [batch EXCEPT ![t] = [interrupts |-> interrupts[e],
                            handle_tasks |-> handle_tasks[e], tasks |-> tasks[e]]]
            /\ tasks' = [tasks EXCEPT ![e] = <<>>]
            /\ handle_tasks' = [handle_tasks EXCEPT ![e] = <<>>]
            /\ interrupts' = [interrupts EXCEPT ![e] = <<>>]
            /\ mutex' = [mutex EXCEPT ![e] = NoThread]
            /\ pc' = [pc EXCEPT ![t] = "run"]
            /\ UNCHANGED <<status, sync_interrupts, statics, envstate,
                           engine, cur, ie, woke, hist, failed, ext>>

\* The queue of the batch AsyncEntry runs next: interrupts, then handle tasks,
\* then tasks.
NextQueue(b) ==
  IF b.interrupts # <<>> THEN "interrupts"
  ELSE IF b.handle_tasks # <<>> THEN "handle_tasks"
  ELSE IF b.tasks # <<>> THEN "tasks"
  ELSE "none"

\* queue.front()->Run() is entered
StartItem(t) ==
  LET e == cur[t]
      q == NextQueue(batch[t]) IN
  /\ pc[t] = "run"
  /\ q # "none"
  /\ ran' = [ran EXCEPT ![e] = Append(@, Head(batch[t][q]))]
  /\ pc' = [pc EXCEPT ![t] = "running"]
  /\ UNCHANGED <<sched, statics, envstate, engine, cur, batch, ie, woke, npush,
                 failed, ext>>

\* Faulty test: AsyncEntry returns after every task.
StopAfterTask_Always(e) == TRUE

\* AsyncEntry after tasks.pop(): `if (hit_memory_limit) return;`
StopAfterTask(e) == hit_memory_limit[e]

\* IsolateEnvironment::CheckMemoryPressure: a pending level is handed to the engine
\* and cleared
CheckMemoryPressure(e) ==
  memory_pressure' = [memory_pressure EXCEPT ![e] = "kNone"]

\* Run() returns; queue.pop(); after a task the memory limit flag is tested
FinishItem(t) ==
  LET e == cur[t]
      q == NextQueue(batch[t])
      b == [batch[t] EXCEPT ![q] = Tail(@)] IN
  /\ pc[t] = "running"
  /\ ~HoldsMutex(t)
  /\ IF q = "tasks" /\ StopAfterTask(e)
       THEN /\ pc' = [pc EXCEPT ![t] = "exit"]
            /\ batch' = [batch EXCEPT ![t] = EmptyBatch]
            /\ UNCHANGED memory_pressure
       ELSE /\ pc' = [pc EXCEPT ![t] = IF NextQueue(b) = "none" THEN "take" ELSE "run"]
            /\ batch' = [batch EXCEPT ![t] = b]
            /\ IF q = "tasks" THEN CheckMemoryPressure(e) ELSE UNCHANGED memory_pressure
  /\ UNCHANGED <<sched, statics, hit_memory_limit, extra_allocated_memory,
                 did_adjust_heap_limit, termstate, apistate, engine, cur, ie, woke,
                 hist, failed, ext>>

\* The items waiting in the four queues of the environment
Queued(e) ==
  {tasks[e][k] : k \in 1..Len(tasks[e])}
  \cup {handle_tasks[e][k] : k \in 1..Len(handle_tasks[e])}
  \cup {interrupts[e][k] : k \in 1..Len(interrupts[e])}
  \cup {sync_interrupts[e][k] : k \in 1..Len(sync_interrupts[e])}

\* A shared_ptr<IsolateEnvironment> goes out of scope on thread t, which goes on
\* at `back`; with the last one the thread runs ~IsolateEnvironment first, which
\* returns at once for root.
ReleaseReference(t, e, back) ==
  IF StrongRefs(e) = 1 /\ ~Root(e)
    THEN /\ pc' = [pc EXCEPT ![t] = "dtor_agent"]
         /\ destroying' = [destroying EXCEPT ![t] = [NoDtor EXCEPT !.env = e, !.back = back]]
         /\ snapshot' = [snapshot EXCEPT ![e] =
              [started |-> TRUE, weak |-> DOMAIN weak_persistents[e], queued |-> Queued(e)]]
         /\ UNCHANGED owners
    ELSE /\ pc' = [pc EXCEPT ![t] = back]
         /\ UNCHANGED <<owners, destroying, snapshot>>

\* Faulty ~Lock: AsyncEntry returns without releasing the v8::Locker.
ExecutorUnlock_Keep(t) ==
  /\ pc[t] = "exit"
  /\ pc' = [pc EXCEPT ![t] = "unref"]
  /\ UNCHANGED <<sched, statics, envstate, engine, cur, batch, ie, woke, hist,
                 failed, ext>>

\* Executor::Lock::~Lock as AsyncEntry returns: the v8::Locker is released
ExecutorUnlock(t) ==
  /\ pc[t] = "exit"
  /\ locker' = [locker EXCEPT ![cur[t]] = NoThread]
  /\ ReleaseReference(t, cur[t], "unref")
  /\ UNCHANGED <<sched, statics, envstate, interrupt_requests, cur, batch, ie,
                 woke, hist, failed, isolate_map, disposed, invoked, notlife>>

\* Faulty decrement: whichever thread reaches zero unrefs the handle itself.
DecrementAfterPass_Unref(t) ==
  /\ pc[t] = "unref"
  /\ uv_ref_count' = uv_ref_count - 1
  /\ root_async' =
       IF uv_ref_count - 1 # 0 THEN root_async
       ELSE [root_async EXCEPT !.ref = FALSE]
  /\ pc' = [pc EXCEPT ![t] = "idle"]
  /\ cur' = [cur EXCEPT ![t] = NoEnv]
  /\ UNCHANGED <<sched, thread_pool, envstate, engine, batch, ie, woke, hist,
                 failed, ext>>

\* After AsyncCallbackCommon: `if (--uv_ref_count == 0)`, uv_async_send from a pool
\* thread (AsyncCallbackNonDefaultIsolate), uv_unref on the default thread
\* (AsyncCallbackDefaultIsolate).
DecrementAfterPass(t) ==
  /\ pc[t] = "unref"
  /\ uv_ref_count' = uv_ref_count - 1
  /\ root_async' =
       IF uv_ref_count - 1 # 0 THEN root_async
       ELSE IF t = DefaultThread THEN [root_async EXCEPT !.ref = FALSE]
       ELSE [root_async EXCEPT !.sent = TRUE]
  /\ pc' = [pc EXCEPT ![t] = "idle"]
  /\ cur' = [cur EXCEPT ![t] = NoEnv]
  /\ UNCHANGED <<sched, thread_pool, envstate, engine, batch, ie, woke, hist,
                 failed, ext>>

\* ----------------------------------------------------- interrupt callbacks
\* The engine calls a requested interrupt callback while script of the isolate
\* runs: Scheduler::AsyncCallbackInterrupt / SyncCallbackInterrupt.
InterruptCallback(t, k) ==
  LET e == cur[t] IN
  /\ pc[t] = "running"
  /\ ~HoldsMutex(t)
  /\ interrupt_requests[e][k] > 0
  /\ interrupt_requests' = [interrupt_requests EXCEPT ![e][k] = @ - 1]
  /\ pc' = [pc EXCEPT ![t] = "ie_take"]
  /\ ie' = [ie EXCEPT ![t] = [q |-> <<>>, kind |-> k]]
  /\ UNCHANGED <<sched, statics, envstate, locker, cur, batch, woke, hist, failed, ext>>

\* InterruptEntry<Take>: the Scheduler::Lock section; returns when the queue is empty
InterruptEntryTake(t) ==
  LET e == cur[t]
      q == IF ie[t].kind = "async" THEN interrupts[e] ELSE sync_interrupts[e] IN
  /\ pc[t] = "ie_take"
  /\ mutex[e] = NoThread
  /\ IF q = <<>>
       THEN /\ pc' = [pc EXCEPT ![t] = "running"]
            /\ ie' = [ie EXCEPT ![t] = NoIe]
            /\ UNCHANGED <<interrupts, sync_interrupts>>
       ELSE /\ pc' = [pc EXCEPT ![t] = "ie_run"]
            /\ ie' = [ie EXCEPT ![t].q = q]
            /\ IF ie[t].kind = "async"
                 THEN /\ interrupts' = [interrupts EXCEPT ![e] = <<>>]
                      /\ UNCHANGED sync_interrupts
                 ELSE /\ sync_interrupts' = [sync_interrupts EXCEPT ![e] = <<>>]
                      /\ UNCHANGED interrupts
  /\ UNCHANGED <<status, tasks, handle_tasks, mutex, statics, envstate, engine,
                 cur, batch, woke, hist, failed, ext>>

\* InterruptEntry<Take>: interrupts.front()->Run(); interrupts.pop();
\* Faulty InterruptEntry: it returns after the queue it took, without looking for
\* interrupts pushed meanwhile.
InterruptEntryRun_Once(t) ==
  LET e == cur[t] IN
  /\ pc[t] = "ie_run"
  /\ ran' = [ran EXCEPT ![e] = Append(@, Head(ie[t].q))]
  /\ ie' = [ie EXCEPT ![t] = IF Tail(ie[t].q) = <<>> THEN NoIe ELSE [@ EXCEPT !.q = Tail(@)]]
  /\ pc' = [pc EXCEPT ![t] = IF Tail(ie[t].q) = <<>> THEN "running" ELSE "ie_run"]
  /\ UNCHANGED <<sched, statics, envstate, engine, cur, batch, woke, npush, failed, ext>>

InterruptEntryRun(t) ==
  LET e == cur[t] IN
  /\ pc[t] = "ie_run"
  /\ ran' = [ran EXCEPT ![e] = Append(@, Head(ie[t].q))]
  /\ ie' = [ie EXCEPT ![t].q = Tail(@)]
  /\ pc' = [pc EXCEPT ![t] = IF Tail(ie[t].q) = <<>> THEN "ie_take" ELSE "ie_run"]
  /\ UNCHANGED <<sched, statics, envstate, engine, cur, batch, woke, npush, failed, ext>>

\* ------------------------------------------------------- memory enforcement
\* IsolateEnvironment::Terminate: the asserted condition
TerminateOk(e) == ~Root(e)

\* Faulty Terminate: the holder keeps its reference.
Terminate_KeepsHolder(e) ==
  /\ mutex[e] = NoThread
  /\ terminated' = [terminated EXCEPT ![e] = TRUE]
  /\ inspector_agent' = [inspector_agent EXCEPT
                           ![e] = IF @ = "none" THEN "none" ELSE "terminated"]
  /\ terminate_execution' = [terminate_execution EXCEPT ![e] = TRUE]
  /\ UNCHANGED holder_isolate

\* IsolateEnvironment::Terminate past its assertion: terminated, the inspector
\* agent's Terminate under the Scheduler::Lock, TerminateExecution, holder reset
Terminate(e) ==
  /\ mutex[e] = NoThread
  /\ terminated' = [terminated EXCEPT ![e] = TRUE]
  /\ inspector_agent' = [inspector_agent EXCEPT
                           ![e] = IF @ = "none" THEN "none" ELSE "terminated"]
  /\ terminate_execution' = [terminate_execution EXCEPT ![e] = TRUE]
  /\ holder_isolate' = [holder_isolate EXCEPT ![e] = FALSE]

\* HeapCheck::Epilogue: whether the check runs, and whether it finds the heap over
\* the limit before and after LowMemoryNotification
HeapCheckOver(e, force, extra_size_before, extra, used, used_after) ==
  /\ ~Root(e)
  /\ force \/ extra # extra_size_before
  /\ used + extra > MemoryLimit
  /\ used_after + extra > MemoryLimit

\* A HeapCheck scope around an allocating operation of a running item:
\* HeapCheck::HeapCheck, the operation (extra_allocated_memory becomes `extra`),
\* HeapCheck::Epilogue.  `used` and `used_after` are the engine's used_heap_size()
\* before and after LowMemoryNotification.
HeapCheck(t, force, extra, used, used_after) ==
  LET e == cur[t] IN
  /\ pc[t] = "running"
  /\ ~HoldsMutex(t)
  /\ used_after <= used
  /\ extra_allocated_memory' = [extra_allocated_memory EXCEPT ![e] = extra]
  /\ IF HeapCheckOver(e, force, extra_allocated_memory[e], extra, used, used_after)
       THEN /\ hit_memory_limit' = [hit_memory_limit EXCEPT ![e] = TRUE]
            /\ Terminate(e)
       ELSE UNCHANGED <<hit_memory_limit, termstate>>
  /\ UNCHANGED <<sched, statics, memory_pressure, did_adjust_heap_limit, apistate,
                 engine, locals, hist, failed, ext>>

\* Faulty test: moderate pressure is requested at any load.
Over80_Always(total_memory, memory_limit) == TRUE

\* MarkSweepCompactEpilogue: `total_memory + total_memory / 4 > memory_limit`
Over80(total_memory, memory_limit) ==
  total_memory + total_memory \div 4 > memory_limit

\* MarkSweepCompactEpilogue on the figures of one call: whether it terminates, the
\* new did_adjust_heap_limit, the pressure level it requests, and whether it
\* ratchets the heap limit (RemoveNearHeapLimitCallback / AddNearHeapLimitCallback)
GCOutcome(gc_flags, total_memory, memory_limit, did_adjust, restored) ==
  IF total_memory > memory_limit
    THEN IF gc_flags \cap {"collect_all", "forced"} # {}
           THEN [terminate |-> TRUE, did_adjust |-> did_adjust, request |-> "kNone",
                 ratchet |-> FALSE]
           ELSE [terminate |-> FALSE, did_adjust |-> did_adjust, request |-> "kCritical",
                 ratchet |-> FALSE]
    ELSE IF "collect_all" \notin gc_flags
           THEN [terminate |-> FALSE,
                 did_adjust |-> IF did_adjust /\ restored THEN FALSE ELSE did_adjust,
                 request |-> IF Over80(total_memory, memory_limit)
                               THEN "kModerate" ELSE "kNone",
                 ratchet |-> did_adjust]
           ELSE [terminate |-> FALSE, did_adjust |-> did_adjust, request |-> "kNone",
                 ratchet |-> FALSE]

\* IsolateEnvironment::MarkSweepCompactEpilogue, called by the engine after a
\* mark-sweep-compact collection while an item runs.  A critical request is a
\* reentrant collection (RequestMemoryPressureNotification, not as interrupt),
\* after which the epilogue is called again with kGCCallbackFlagForced and the
\* heap then in use, `used_after`.  `restored` says whether the engine's
\* heap_size_limit() is back at initial_heap_size_limit.
MarkSweepCompactEpilogue(t, gc_flags, used, used_after, restored) ==
  LET e == cur[t]
      limit == MemoryLimit + MiscMemorySize
      first == GCOutcome(gc_flags, used + extra_allocated_memory[e], limit,
                         did_adjust_heap_limit[e], restored)
      last == IF first.request = "kCritical"
                THEN GCOutcome({"forced"}, used_after + extra_allocated_memory[e],
                               limit, first.did_adjust, restored)
                ELSE first
  IN
  /\ pc[t] = "running"
  /\ ~HoldsMutex(t)
  /\ ~Root(e)
  /\ used_after <= used
  /\ IF last.terminate
       THEN /\ Terminate(e)
            /\ hit_memory_limit' = [hit_memory_limit EXCEPT ![e] = TRUE]
       ELSE UNCHANGED <<hit_memory_limit, termstate>>
  /\ did_adjust_heap_limit' = [did_adjust_heap_limit EXCEPT ![e] = last.did_adjust]
  /\ memory_pressure' = [memory_pressure EXCEPT
       ![e] = IF first.request # "kNone" \/ last.request # "kNone" THEN "kNone" ELSE @]
  /\ UNCHANGED <<sched, statics, extra_allocated_memory, apistate, engine, locals,
                 hist, failed, ext>>

\* IsolateEnvironment::NearHeapLimitCallback, called by the engine when the heap of
\* a running isolate nears its limit: the limit is raised, did_adjust_heap_limit
\* set, and a pressure level left in memory_pressure for the interrupt.
NearHeapLimitCallback(t, used) ==
  LET e == cur[t] IN
  /\ pc[t] = "running"
  /\ ~HoldsMutex(t)
  /\ ~Root(e)
  /\ did_adjust_heap_limit' = [did_adjust_heap_limit EXCEPT ![e] = TRUE]
  /\ memory_pressure' = [memory_pressure EXCEPT ![e] =
       IF used + extra_allocated_memory[e] > EpilogueLimit THEN "kCritical"
       ELSE "kModerate"]
  /\ UNCHANGED <<sched, statics, hit_memory_limit, extra_allocated_memory, termstate,
                 apistate, engine, locals, hist, failed, ext>>

\* IsolateEnvironment::MarkSweepCompactEpilogue for an environment whose limit is
\* EpilogueLimit, with a record of the call.
EpilogueCall(t, gc_flags, used, used_after, restored) ==
  LET e == cur[t]
      total == used + extra_allocated_memory[e]
      first == GCOutcome(gc_flags, total, EpilogueLimit, did_adjust_heap_limit[e],
                         restored)
      last == IF first.request = "kCritical"
                THEN GCOutcome({"forced"}, used_after + extra_allocated_memory[e],
                               EpilogueLimit, first.did_adjust, restored)
                ELSE first
  IN
  /\ pc[t] = "running"
  /\ ~HoldsMutex(t)
  /\ ~Root(e)
  /\ used_after <= used
  /\ IF last.terminate
       THEN /\ Terminate(e)
            /\ hit_memory_limit' = [hit_memory_limit EXCEPT ![e] = TRUE]
       ELSE UNCHANGED <<hit_memory_limit, termstate>>
  /\ did_adjust_heap_limit' = [did_adjust_heap_limit EXCEPT ![e] = last.did_adjust]
  /\ memory_pressure' = [memory_pressure EXCEPT
       ![e] = IF first.request # "kNone" \/ last.request # "kNone" THEN "kNone" ELSE @]
  /\ gc_call' = [called |-> TRUE, gc_flags |-> gc_flags, total_memory |-> total,
                  active |-> did_adjust_heap_limit[e], restored |-> restored,
                  ratchet |-> first.ratchet, request |-> first.request,
                  did_adjust |-> first.did_adjust, terminate |-> last.terminate]
  /\ UNCHANGED <<sched, statics, extra_allocated_memory, apistate, engine, locals,
                 hist, failed, notgc>>

MemoryOps(t) ==
  \/ \E force \in BOOLEAN, extra \in 0..MaxExtra, used \in 0..MaxHeap,
        used_after \in 0..MaxHeap : HeapCheck(t, force, extra, used, used_after)
  \/ \E gc_flags \in GCFlags, used \in 0..MaxHeap,
        used_after \in 0..MaxHeap, restored \in BOOLEAN :
          MarkSweepCompactEpilogue(t, gc_flags, used, used_after, restored)

\* ------------------------------------------------------------ API calls
\* A call of IsolateEnvironment::Terminate by a holder of the environment
TerminateCall(e) ==
  /\ ProcessAlive
  /\ owners[e] > 0
  /\ IF ~TerminateOk(e) THEN AssertFails("Terminate")
     ELSE /\ Terminate(e)
          /\ call' = [op |-> "Terminate", env |-> e, handle |-> 0, threw |-> FALSE]
          /\ UNCHANGED <<status, tasks, handle_tasks, interrupts, sync_interrupts,
                         mutex, statics, memstate, weak_persistents, engine,
                         locals, hist, failed, ext>>

\* IsolateEnvironment::EnableInspectorAgent
EnableInspectorAgent(e) ==
  /\ ProcessAlive
  /\ owners[e] > 0
  /\ inspector_agent' = [inspector_agent EXCEPT ![e] = "attached"]
  /\ call' = [op |-> "EnableInspectorAgent", env |-> e, handle |-> 0, threw |-> FALSE]
  /\ UNCHANGED <<sched, statics, memstate, terminated, terminate_execution,
                 holder_isolate, weak_persistents, engine, locals, hist, failed, ext>>

\* weak_persistents.insert(std::make_pair(handle, std::make_pair(fn, param)))
Insert(table, handle, param) ==
  [h \in DOMAIN table \cup {handle} |->
     IF h \in DOMAIN table THEN table[h] ELSE <<"fn", param>>]

\* Faulty erase: the whole table is cleared.
Erase_All(table, handle) == [h \in {} |-> table[h]]

\* weak_persistents.erase(it)
Erase(table, handle) == [h \in DOMAIN table \ {handle} |-> table[h]]

\* IsolateEnvironment::AddWeakCallback
AddWeakCallback(e, handle, param) ==
  LET threw == ~Root(e) /\ handle \in DOMAIN weak_persistents[e] IN
  /\ ProcessAlive
  /\ owners[e] > 0
  /\ call' = [op |-> "AddWeakCallback", env |-> e, handle |-> handle, threw |-> threw]
  /\ weak_persistents' =
       IF Root(e) \/ threw THEN weak_persistents
       ELSE [weak_persistents EXCEPT ![e] = Insert(@, handle, param)]
  /\ UNCHANGED <<sched, statics, memstate, termstate, engine, locals, hist, failed, ext>>

\* IsolateEnvironment::RemoveWeakCallback
RemoveWeakCallback(e, handle) ==
  LET threw == ~Root(e) /\ handle \notin DOMAIN weak_persistents[e] IN
  /\ ProcessAlive
  /\ owners[e] > 0
  /\ call' = [op |-> "RemoveWeakCallback", env |-> e, handle |-> handle, threw |-> threw]
  /\ weak_persistents' =
       IF Root(e) \/ threw THEN weak_persistents
       ELSE [weak_persistents EXCEPT ![e] = Erase(@, handle)]
  /\ UNCHANGED <<sched, statics, memstate, termstate, engine, locals, hist, failed, ext>>

\* ------------------------------------------------------------ destruction
\* Calling code drops its reference to the environment (on the default thread,
\* between libuv callbacks, outside any Scheduler::Lock section).
ReleaseRef(t, e) ==
  /\ t = DefaultThread
  /\ pc[t] = "idle"
  /\ ~HoldsMutex(t)
  /\ owners[e] > 0
  /\ IF StrongRefs(e) = 1 /\ ~Root(e)
       THEN /\ ReleaseReference(t, e, "idle")
            /\ owners' = [owners EXCEPT ![e] = @ - 1]
       ELSE /\ owners' = [owners EXCEPT ![e] = @ - 1]
            /\ UNCHANGED <<pc, destroying, snapshot>>
  /\ UNCHANGED <<sched, statics, envstate, engine, cur, batch, ie, woke, hist,
                 failed, isolate_map, disposed, invoked, notlife>>

\* ~IsolateEnvironment: the inspector agent is moved to agent_ptr inside a
\* Scheduler::Lock section
DtorAgent(t) ==
  LET e == destroying[t].env IN
  /\ pc[t] = "dtor_agent"
  /\ mutex[e] = NoThread
  /\ destroying' = [destroying EXCEPT ![t].agent_ptr = inspector_agent[e]]
  /\ inspector_agent' = [inspector_agent EXCEPT ![e] = "none"]
  /\ pc' = [pc EXCEPT ![t] = "dtor_lock"]
  /\ UNCHANGED <<sched, statics, memstate, terminated, terminate_execution,
                 holder_isolate, apistate, engine, cur, batch, ie, woke, hist,
                 failed, owners, isolate_map, disposed, invoked, snapshot, notlife>>

\* The handle after h in the order of the std::map, 0 for end()
NextHandle(table, h) ==
  LET later == {g \in DOMAIN table : g > h} IN
  IF later = {} THEN 0 ELSE CHOOSE g \in later : \A g2 \in later : g <= g2

\* ~IsolateEnvironment: Executor::Lock lock(*this); agent_ptr.reset(); and the
\* loop over weak_persistents starts at begin()
DtorLock(t) ==
  LET e == destroying[t].env IN
  /\ pc[t] = "dtor_lock"
  /\ locker[e] = NoThread
  /\ locker' = [locker EXCEPT ![e] = t]
  /\ destroying' = [destroying EXCEPT ![t].agent_ptr = "none",
                                      ![t].it = NextHandle(weak_persistents[e], 0)]
  /\ pc' = [pc EXCEPT ![t] = "dtor_weak"]
  /\ UNCHANGED <<sched, statics, envstate, interrupt_requests, cur, batch, ie, woke,
                 hist, failed, owners, isolate_map, disposed, invoked, snapshot, notlife>>

\* Faulty cleanup function: it leaves its handle registered.
WeakCallbackFn_Keeps(table, handle) == table

\* fn(param) of a registered weak callback: the cleanup function unregisters its
\* own handle with RemoveWeakCallback.
WeakCallbackFn(table, handle) == Erase(table, handle)

\* ~IsolateEnvironment: one round of the loop over weak_persistents (the iterator
\* is advanced before fn(param) is called), and after the loop
\* assert(weak_persistents.empty())
DtorWeak(t) ==
  LET e == destroying[t].env
      h == destroying[t].it IN
  /\ pc[t] = "dtor_weak"
  /\ IF h # 0
       THEN /\ destroying' = [destroying EXCEPT ![t].it = NextHandle(weak_persistents[e], h)]
            /\ invoked' = [invoked EXCEPT ![e] = Append(@, h)]
            /\ weak_persistents' = [weak_persistents EXCEPT ![e] = WeakCallbackFn(@, h)]
            /\ UNCHANGED <<sched, statics, memstate, termstate, call, engine, locals,
                           hist, failed, owners, isolate_map, disposed, snapshot, notlife>>
       ELSE IF DOMAIN weak_persistents[e] # {}
              THEN AssertFails("weak_persistents.empty")
              ELSE /\ pc' = [pc EXCEPT ![t] = "dtor_drain"]
                   /\ UNCHANGED <<sched, statics, envstate, engine, cur, batch, ie,
                                  woke, hist, failed, ext>>

\* Faulty destructor: the sync interrupts are left in their queue.
DtorDrain_KeepsSync(t) ==
  LET e == destroying[t].env IN
  /\ pc[t] = "dtor_drain"
  /\ mutex[e] = NoThread
  /\ interrupts' = [interrupts EXCEPT ![e] = <<>>]
  /\ handle_tasks' = [handle_tasks EXCEPT ![e] = <<>>]
  /\ tasks' = [tasks EXCEPT ![e] = <<>>]
  /\ locker' = [locker EXCEPT ![e] = NoThread]
  /\ pc' = [pc EXCEPT ![t] = "dtor_dispose"]
  /\ UNCHANGED <<status, sync_interrupts, mutex, statics, envstate,
                 interrupt_requests, cur, batch, ie, woke, hist, failed, ext>>

\* ~IsolateEnvironment: Scheduler::Lock lock2; TakeInterrupts, TakeSyncInterrupts,
\* TakeHandleTasks, TakeTasks with the results destroyed; leaving the block releases
\* lock2 and the Executor::Lock
DtorDrain(t) ==
  LET e == destroying[t].env IN
  /\ pc[t] = "dtor_drain"
  /\ mutex[e] = NoThread
  /\ interrupts' = [interrupts EXCEPT ![e] = <<>>]
  /\ sync_interrupts' = [sync_interrupts EXCEPT ![e] = <<>>]
  /\ handle_tasks' = [handle_tasks EXCEPT ![e] = <<>>]
  /\ tasks' = [tasks EXCEPT ![e] = <<>>]
  /\ locker' = [locker EXCEPT ![e] = NoThread]
  /\ pc' = [pc EXCEPT ![t] = "dtor_dispose"]
  /\ UNCHANGED <<status, mutex, statics, envstate, interrupt_requests, cur, batch,
                 ie, woke, hist, failed, ext>>

\* ~IsolateEnvironment: Executor::Scope lock(*this); isolate->Dispose();
DtorDispose(t) ==
  LET e == destroying[t].env IN
  /\ pc[t] = "dtor_dispose"
  /\ disposed' = [disposed EXCEPT ![e] = TRUE]
  /\ pc' = [pc EXCEPT ![t] = "dtor_erase"]
  /\ UNCHANGED <<sched, statics, envstate, engine, cur, batch, ie, woke, hist,
                 failed, owners, destroying, isolate_map, invoked, snapshot, notlife>>

\* ~IsolateEnvironment: isolate_map.erase(isolate_map.find(isolate)) under
\* lookup_mutex; the destructor returns
DtorErase(t) ==
  LET e == destroying[t].env IN
  /\ pc[t] = "dtor_erase"
  /\ isolate_map' = isolate_map \ {e}
  /\ pc' = [pc EXCEPT ![t] = destroying[t].back]
  /\ destroying' = [destroying EXCEPT ![t] = NoDtor]
  /\ UNCHANGED <<sched, statics, envstate, engine, cur, batch, ie, woke, hist,
                 failed, owners, disposed, invoked, snapshot, notlife>>

DtorOps(t) ==
  \/ DtorAgent(t)
  \/ DtorLock(t)
  \/ DtorWeak(t)
  \/ DtorDrain(t)
  \/ DtorDispose(t)
  \/ DtorErase(t)

\* ------------------------------------------------------- executor scopes
\* The members of a Lock, Unlock or Scope object: Lock::last, Scope::last,
\* WallTimer::cpu_timer and ::time, whether the v8::Locker took the lock,
\* CpuTimer::last and ::time, PauseScope::timer.  `acquired` is false while the
\* Lock constructor waits in v8::Locker.
BlankScope ==
  [kind |-> "Scope", env |-> NoEnv, acquired |-> TRUE, lock_last |-> 0,
   scope_last |-> NoEnv, wall_cpu |-> 0, wall_time0 |-> 0, locked |-> FALSE,
   cpu_last |-> 0, time |-> 0, pause_timer |-> NoTimer]

\* The timer state an operation of thread t works on, and the assertion that
\* failed in it, if any
ExecState(t) ==
  [cpu_time |-> cpu_time, cpu_timer |-> cpu_timer, stack |-> scopes[t], fail |-> ""]

\* CpuTimer::Pause of the timer at depth d: cpu_time is added to, then the
\* assertion, then executor.cpu_timer is cleared
Pause(st, t, d) ==
  LET e == st.stack[d].env IN
  IF st.fail # "" THEN st
  ELSE [st EXCEPT !.cpu_time[e] = @ + (now - st.stack[d].time),
                  !.cpu_timer[e] = IF @ = Timer(t, d) THEN NoTimer ELSE @,
                  !.fail = IF st.cpu_timer[e] = Timer(t, d) THEN "" ELSE "CpuTimer::Pause"]

\* CpuTimer::Resume of the timer at depth d: time is reset, then the assertion,
\* then executor.cpu_timer is set
Resume(st, t, d) ==
  LET e == st.stack[d].env IN
  IF st.fail # "" THEN st
  ELSE [st EXCEPT !.stack[d].time = now,
                  !.cpu_timer[e] = IF @ = NoTimer THEN Timer(t, d) ELSE @,
                  !.fail = IF st.cpu_timer[e] = NoTimer THEN "" ELSE "CpuTimer::Resume"]

\* CpuTimer::~CpuTimer of the timer at depth d
StopTimer(st, t, d) ==
  LET e == st.stack[d].env IN
  [st EXCEPT !.cpu_time[e] = @ + (now - st.stack[d].time),
             !.cpu_timer[e] = IF @ = Timer(t, d) THEN NoTimer ELSE @,
             !.fail = IF st.cpu_timer[e] = Timer(t, d) THEN "" ELSE "CpuTimer::~CpuTimer"]

\* A failed assertion of a timer aborts the process
ExecFails(fail) ==
  IF fail = "" THEN UNCHANGED <<failed, pc, mutex>>
  ELSE /\ failed' = failed \cup {fail}
       /\ pc' = [t \in Threads |-> "aborted"]
       /\ mutex' = [e \in Envs |-> "aborted"]

\* What the executor scopes leave alone
ExecFrame ==
  UNCHANGED <<status, tasks, handle_tasks, interrupts, sync_interrupts, statics,
              envstate, interrupt_requests, cur, batch, ie, woke, hist, notexec>>

\* The thread is not in the middle of a Lock constructor and may open a scope
MayOpenScope(t) ==
  /\ ProcessAlive
  /\ Len(scopes[t]) < (IF t = DefaultThread THEN MaxDepth ELSE MaxPoolDepth)
  /\ Len(scopes[t]) > 0 => scopes[t][Len(scopes[t])].acquired

\* Executor::Lock::Lock up to its v8::Locker: last(current), scope(env),
\* wall_timer(env.executor)
LockEnter(t, e) ==
  LET d == Len(scopes[t]) + 1
      st == IF cpu_timer_thread[t] # 0
              THEN Pause(ExecState(t), t, cpu_timer_thread[t]) ELSE ExecState(t)
      starts == st.fail = "" /\ wall_timer[e] = NoTimer
      lock == [BlankScope EXCEPT !.kind = "Lock", !.env = e, !.acquired = FALSE,
                 !.lock_last = current[t], !.scope_last = current_env[t],
                 !.wall_cpu = cpu_timer_thread[t],
                 !.wall_time0 = IF starts THEN now ELSE 0]
  IN
  /\ MayOpenScope(t)
  /\ current_env' = [current_env EXCEPT ![t] = e]
  /\ scopes' = [scopes EXCEPT ![t] = Append(st.stack, lock)]
  /\ cpu_time' = st.cpu_time
  /\ cpu_timer' = st.cpu_timer
  /\ wall_timer' = IF starts THEN [wall_timer EXCEPT ![e] = Timer(t, d)] ELSE wall_timer
  /\ ExecFails(st.fail)
  /\ ExecFrame
  /\ UNCHANGED <<locker, current, cpu_timer_thread, wall_time, now, held_time>>

\* Executor::Lock::Lock from its v8::Locker on: locker(env.isolate), which waits
\* while another thread has the isolate and nests on the thread that has it,
\* cpu_timer(env.executor), and `current = this`
LockAcquire(t) ==
  LET d == Len(scopes[t])
      e == scopes[t][d].env
      fail == IF cpu_timer[e] = NoTimer THEN "" ELSE "CpuTimer::CpuTimer"
  IN
  /\ ProcessAlive
  /\ d > 0
  /\ scopes[t][d].kind = "Lock"
  /\ ~scopes[t][d].acquired
  /\ locker[e] \in {NoThread, t}
  /\ locker' = [locker EXCEPT ![e] = t]
  /\ scopes' = [scopes EXCEPT ![t][d] = [@ EXCEPT !.acquired = (fail = ""),
                   !.locked = (locker[e] = NoThread),
                   !.cpu_last = cpu_timer_thread[t], !.time = now]]
  /\ cpu_timer_thread' = [cpu_timer_thread EXCEPT ![t] = d]
  /\ cpu_timer' = IF fail = "" THEN [cpu_timer EXCEPT ![e] = Timer(t, d)] ELSE cpu_timer
  /\ current' = IF fail = "" THEN [current EXCEPT ![t] = d] ELSE current
  /\ ExecFails(fail)
  /\ ExecFrame
  /\ UNCHANGED <<current_env, cpu_time, wall_time, wall_timer, now, held_time>>

\* Executor::Lock::~Lock: `current = last`, then the members in reverse:
\* ~CpuTimer, ~Locker, ~WallTimer (the paused timer is resumed, the wall time is
\* added if this timer started it), ~Scope
LockDtor(t) ==
  LET d == Len(scopes[t])
      lock == scopes[t][d]
      e == lock.env
      st1 == StopTimer(ExecState(t), t, d)
      st == IF lock.wall_cpu # 0 THEN Resume(st1, t, lock.wall_cpu) ELSE st1
      ok == st.fail = ""
      stops == ok /\ wall_timer[e] = Timer(t, d)
  IN
  /\ ProcessAlive
  /\ d > 0
  /\ lock.kind = "Lock"
  /\ lock.acquired
  /\ current' = [current EXCEPT ![t] = lock.lock_last]
  /\ cpu_timer_thread' = [cpu_timer_thread EXCEPT ![t] = lock.cpu_last]
  /\ cpu_time' = st.cpu_time
  /\ cpu_timer' = st.cpu_timer
  /\ locker' = IF lock.locked /\ st1.fail = ""
                 THEN [locker EXCEPT ![e] = NoThread] ELSE locker
  /\ wall_timer' = IF stops THEN [wall_timer EXCEPT ![e] = NoTimer] ELSE wall_timer
  /\ wall_time' = IF stops THEN [wall_time EXCEPT ![e] = @ + (now - lock.wall_time0)]
                  ELSE wall_time
  /\ current_env' = IF ok THEN [current_env EXCEPT ![t] = lock.scope_last]
                    ELSE current_env
  /\ scopes' = [scopes EXCEPT ![t] = IF ok THEN SubSeq(st.stack, 1, d - 1) ELSE st.stack]
  /\ ExecFails(st.fail)
  /\ ExecFrame
  /\ UNCHANGED <<now, held_time>>

\* An Unlock is opened inside a Lock of the same environment, whose timer is the
\* environment's active one.
UnlockProtocol(t, e) ==
  LET d == Len(scopes[t]) IN
  /\ d > 0
  /\ scopes[t][d].kind = "Lock"
  /\ scopes[t][d].env = e
  /\ cpu_timer[e].thread = t

\* Executor::Unlock::Unlock: pause_scope{env.executor.cpu_timer}, unlocker{env.isolate}
UnlockCtor(t, e) ==
  LET st == Pause(ExecState(t), t, cpu_timer[e].depth)
      unlock == [BlankScope EXCEPT !.kind = "Unlock", !.env = e,
                                   !.pause_timer = cpu_timer[e]]
  IN
  /\ MayOpenScope(t)
  /\ UnlockProtocol(t, e)
  /\ cpu_time' = st.cpu_time
  /\ cpu_timer' = st.cpu_timer
  /\ locker' = IF st.fail = "" THEN [locker EXCEPT ![e] = NoThread] ELSE locker
  /\ scopes' = [scopes EXCEPT ![t] = Append(st.stack, unlock)]
  /\ ExecFails(st.fail)
  /\ ExecFrame
  /\ UNCHANGED <<current_env, current, cpu_timer_thread, wall_time, wall_timer, now,
                 held_time>>

\* Executor::Unlock::~Unlock: ~Unlocker waits for the isolate and takes it back,
\* ~PauseScope resumes the timer
UnlockDtor(t) ==
  LET d == Len(scopes[t])
      unlock == scopes[t][d]
      e == unlock.env
      st == Resume(ExecState(t), t, unlock.pause_timer.depth)
  IN
  /\ ProcessAlive
  /\ d > 0
  /\ unlock.kind = "Unlock"
  /\ locker[e] = NoThread
  /\ locker' = [locker EXCEPT ![e] = t]
  /\ cpu_time' = st.cpu_time
  /\ cpu_timer' = st.cpu_timer
  /\ scopes' = [scopes EXCEPT ![t] = IF st.fail = "" THEN SubSeq(st.stack, 1, d - 1)
                                     ELSE st.stack]
  /\ ExecFails(st.fail)
  /\ ExecFrame
  /\ UNCHANGED <<current_env, current, cpu_timer_thread, wall_time, wall_timer, now,
                 held_time>>

\* Executor::Scope::Scope
ScopeCtor(t, e) ==
  /\ MayOpenScope(t)
  /\ scopes' = [scopes EXCEPT ![t] = Append(@, [BlankScope EXCEPT !.env = e,
                                                  !.scope_last = current_env[t]])]
  /\ current_env' = [current_env EXCEPT ![t] = e]
  /\ ExecFrame
  /\ UNCHANGED <<failed, pc, mutex, locker, current, cpu_timer_thread, cpu_time,
                 cpu_timer, wall_time, wall_timer, now, held_time>>

\* Faulty ~Scope: current_env is cleared.
ScopeDtor_Clears(t) ==
  LET d == Len(scopes[t]) IN
  /\ ProcessAlive
  /\ d > 0
  /\ scopes[t][d].kind = "Scope"
  /\ current_env' = [current_env EXCEPT ![t] = NoEnv]
  /\ scopes' = [scopes EXCEPT ![t] = SubSeq(@, 1, d - 1)]
  /\ ExecFrame
  /\ UNCHANGED <<failed, pc, mutex, locker, current, cpu_timer_thread, cpu_time,
                 cpu_timer, wall_time, wall_timer, now, held_time>>

\* Executor::Scope::~Scope
ScopeDtor(t) ==
  LET d == Len(scopes[t]) IN
  /\ ProcessAlive
  /\ d > 0
  /\ scopes[t][d].kind = "Scope"
  /\ current_env' = [current_env EXCEPT ![t] = scopes[t][d].scope_last]
  /\ scopes' = [scopes EXCEPT ![t] = SubSeq(@, 1, d - 1)]
  /\ ExecFrame
  /\ UNCHANGED <<failed, pc, mutex, locker, current, cpu_timer_thread, cpu_time,
                 cpu_timer, wall_time, wall_timer, now, held_time>>

\* The innermost Lock or Unlock of the thread is a Lock of e that has the isolate:
\* the thread holds the environment's Lock and has not paused it.
HoldsUnpaused(t, e) ==
  LET ds == {d \in 1..Len(scopes[t]) : scopes[t][d].kind \in {"Lock", "Unlock"}} IN
  /\ ds # {}
  /\ LET d == CHOOSE x \in ds : \A y \in ds : y <= x IN
       /\ scopes[t][d].kind = "Lock"
       /\ scopes[t][d].acquired
       /\ scopes[t][d].env = e

\* The clock advances by one unit
Tick ==
  /\ ProcessAlive
  /\ now < MaxClock
  /\ now' = now + 1
  /\ held_time' = [e \in Envs |->
       held_time[e] + (IF \E t \in Threads : HoldsUnpaused(t, e) THEN 1 ELSE 0)]
  /\ ExecFrame
  /\ UNCHANGED <<failed, pc, mutex, locker, current_env, current, cpu_timer_thread,
                 scopes, cpu_time, cpu_timer, wall_time, wall_timer>>

\* IsolateEnvironment::GetCpuTime
GetCpuTime(e) ==
  cpu_time[e] + (IF cpu_timer[e] # NoTimer
                   THEN now - scopes[cpu_timer[e].thread][cpu_timer[e].depth].time
                   ELSE 0)

\* ---------------------------------------------------------------- AsyncWait
\* What AsyncWait leaves alone
WaitFrame == UNCHANGED <<sched, statics, envstate, engine, locals, hist, failed, notwait>>

\* Scheduler::AsyncWait::AsyncWait, under scheduler.mutex; the flags of a new
\* object are false; Ready() and Wake() will each be called once on it
AsyncWaitCtor ==
  /\ ProcessAlive
  /\ wpc["wait"] = "none"
  /\ nwaits < MaxWaits
  /\ mutex[Sandbox] = NoThread
  /\ async_wait' = TRUE
  /\ ready' = FALSE
  /\ done' = FALSE
  /\ wpc' = [wait |-> "constructed", ready |-> "idle", wake |-> "idle"]
  /\ nwaits' = nwaits + 1
  /\ WaitFrame
  /\ UNCHANGED wait_mutex

\* Scheduler::AsyncWait::~AsyncWait, under scheduler.mutex, once Wait() has returned
AsyncWaitDtor ==
  /\ wpc["wait"] = "returned"
  /\ mutex[Sandbox] = NoThread
  /\ async_wait' = FALSE
  /\ wpc' = [r \in WaitRoles |-> "none"]
  /\ WaitFrame
  /\ UNCHANGED <<ready, done, wait_mutex, nwaits>>

\* std::lock_guard / std::unique_lock on scheduler.wait_mutex at the top of
\* Ready(), Wake() and Wait()
WaitMutexLock(r) ==
  /\ async_wait
  /\ wpc[r] = IF r = "wait" THEN "constructed" ELSE "idle"
  /\ wait_mutex = NoThread
  /\ wait_mutex' = r
  /\ wpc' = [wpc EXCEPT ![r] = IF r = "wait" THEN "check" ELSE "locked"]
  /\ WaitFrame
  /\ UNCHANGED <<async_wait, ready, done, nwaits>>

\* wait_cv.notify_one(): a thread blocked in wait_cv.wait is woken
NotifyOne(w) == IF w["wait"] = "blocked" THEN [w EXCEPT !["wait"] = "woken"] ELSE w

\* Faulty Ready(): the flag is set without notifying.
ReadySet_Silent ==
  /\ wpc["ready"] = "locked"
  /\ ready' = TRUE
  /\ wpc' = [wpc EXCEPT !["ready"] = "set"]
  /\ WaitFrame
  /\ UNCHANGED <<async_wait, done, wait_mutex, nwaits>>

\* Scheduler::AsyncWait::Ready: ready = true; if (done) notify_one
ReadySet ==
  /\ wpc["ready"] = "locked"
  /\ ready' = TRUE
  /\ wpc' = [(IF done THEN NotifyOne(wpc) ELSE wpc) EXCEPT !["ready"] = "set"]
  /\ WaitFrame
  /\ UNCHANGED <<async_wait, done, wait_mutex, nwaits>>

\* Scheduler::AsyncWait::Wake: done = true; if (ready) notify_one
WakeSet ==
  /\ wpc["wake"] = "locked"
  /\ done' = TRUE
  /\ wpc' = [(IF ready THEN NotifyOne(wpc) ELSE wpc) EXCEPT !["wake"] = "set"]
  /\ WaitFrame
  /\ UNCHANGED <<async_wait, ready, wait_mutex, nwaits>>

\* Ready() and Wake() return: the lock_guard releases wait_mutex
WaitMutexUnlock(r) ==
  /\ r # "wait"
  /\ wpc[r] = "set"
  /\ wait_mutex' = NoThread
  /\ wpc' = [wpc EXCEPT ![r] = "returned"]
  /\ WaitFrame
  /\ UNCHANGED <<async_wait, ready, done, nwaits>>

\* Scheduler::AsyncWait::Wait: `while (!ready || !done) wait_cv.wait(lock);` with
\* the mutex held: wait() releases the mutex and blocks in one step; when the
\* loop ends Wait() returns and releases the mutex
WaitCheck ==
  /\ wpc["wait"] = "check"
  /\ wpc' = [wpc EXCEPT !["wait"] = IF ~ready \/ ~done THEN "blocked" ELSE "returned"]
  /\ wait_mutex' = NoThread
  /\ WaitFrame
  /\ UNCHANGED <<async_wait, ready, done, nwaits>>

\* wait_cv.wait may return without a notification
SpuriousWake ==
  /\ wpc["wait"] = "blocked"
  /\ wpc' = [wpc EXCEPT !["wait"] = "woken"]
  /\ WaitFrame
  /\ UNCHANGED <<async_wait, ready, done, wait_mutex, nwaits>>

\* wait_cv.wait takes the mutex again before it returns
WaitReacquire ==
  /\ wpc["wait"] = "woken"
  /\ wait_mutex = NoThread
  /\ wait_mutex' = "wait"
  /\ wpc' = [wpc EXCEPT !["wait"] = "check"]
  /\ WaitFrame
  /\ UNCHANGED <<async_wait, ready, done, nwaits>>

\* ------------------------------------------------------------ behaviours
SchedulerOps(t, e) ==
  \/ SchedulerLock(t, e)
  \/ SchedulerUnlock(t, e)
  \/ PushTask(t, e)
  \/ PushHandleTask(t, e)
  \/ PushInterrupt(t, e)
  \/ WakeIsolate(t, e)
  \/ InterruptIsolate(t, e)

SyncInterruptOps(t, e) ==
  \/ PushSyncInterrupt(t, e)
  \/ InterruptSyncIsolate(t, e)

PassOps(t) ==
  \/ \E e \in Envs : AsyncCallbackNonDefaultIsolate(t, e)
  \/ AsyncCallbackDefaultIsolate(t)
  \/ ExecutorLock(t)
  \/ AsyncEntryLock(t)
  \/ TakeQueues(t)
  \/ StartItem(t)
  \/ FinishItem(t)
  \/ ExecutorUnlock(t)
  \/ DecrementAfterPass(t)
  \/ \E k \in Kinds : InterruptCallback(t, k)
  \/ InterruptEntryTake(t)
  \/ InterruptEntryRun(t)

\* Callers and running items post work to the sandboxed environment; any pool
\* thread may take a dispatched pass; heap checks and GC epilogues happen while an
\* item runs.
Next ==
  \E t \in Threads :
    \/ SchedulerOps(t, Sandbox)
    \/ PassOps(t)
    \/ MemoryOps(t)

Spec == Init /\ [][Next]_vars

\* The same with the default thread as the only caller and one pool thread for the
\* passes, under the scheduling the progress properties assume.
Worker == "p1"
MemThreads == {DefaultThread, Worker}

MemNext ==
  \/ SchedulerOps(DefaultThread, Sandbox)
  \/ \E t \in MemThreads :
       \/ PassOps(t)
       \/ MemoryOps(t)

\* The caller leaves its Scheduler::Lock section; the worker is scheduled fairly,
\* also for a mutex that is free again and again; every Runnable returns.
Fairness ==
  /\ WF_vars(SchedulerUnlock(DefaultThread, Sandbox))
  /\ SF_vars(PassOps(Worker))
  /\ SF_vars(FinishItem(Worker))

MemSpec == Init /\ [][MemNext]_vars /\ Fairness

\* The environment API called on its own, no pass in progress.
ApiNext ==
  \E e \in Envs :
    \/ TerminateCall(e)
    \/ EnableInspectorAgent(e)
    \/ \E handle \in Handles, param \in Params : AddWeakCallback(e, handle, param)
    \/ \E handle \in Handles : RemoveWeakCallback(e, handle)

ApiSpec == Init /\ [][ApiNext]_vars

\* The life of the sandboxed environment: the default thread posts work, registers
\* weak callbacks, terminates and drops its reference; one
\* pool thread runs the passes; whichever thread releases the last reference runs
\* the destructor.
LifeNext ==
  \/ SchedulerLock(DefaultThread, Sandbox)
  \/ SchedulerUnlock(DefaultThread, Sandbox)
  \/ PushTask(DefaultThread, Sandbox)
  \/ PushHandleTask(DefaultThread, Sandbox)
  \/ PushInterrupt(DefaultThread, Sandbox)
  \/ PushSyncInterrupt(DefaultThread, Sandbox)
  \/ WakeIsolate(DefaultThread, Sandbox)
  \/ AsyncCallbackNonDefaultIsolate(Worker, Sandbox)
  \/ AsyncCallbackDefaultIsolate(DefaultThread)
  \/ ExecutorLock(Worker)
  \/ AsyncEntryLock(Worker)
  \/ TakeQueues(Worker)
  \/ StartItem(Worker)
  \/ FinishItem(Worker)
  \/ ExecutorUnlock(Worker)
  \/ DecrementAfterPass(Worker)
  \/ TerminateCall(Sandbox)
  \/ \E handle \in Handles : AddWeakCallback(Sandbox, handle, "a")
  \/ ReleaseRef(DefaultThread, Sandbox)
  \/ \E t \in MemThreads : DtorOps(t)

LifeSpec == Init /\ [][LifeNext]_vars

\* Two threads open and close Lock, Unlock and Scope objects on both environments,
\* well nested, while the clock advances.
ExecNext ==
  \/ \E t \in MemThreads, e \in Envs :
       \/ LockEnter(t, e)
       \/ UnlockCtor(t, e)
       \/ ScopeCtor(t, e)
  \/ \E t \in MemThreads :
       \/ LockAcquire(t)
       \/ LockDtor(t)
       \/ UnlockDtor(t)
       \/ ScopeDtor(t)
  \/ Tick

ExecSpec == Init /\ [][ExecNext]_vars

\* One thread constructs an AsyncWait and waits on it; Ready() and Wake() are
\* called on it by other threads, in any order and at any time.
WaitNext ==
  \/ AsyncWaitCtor
  \/ AsyncWaitDtor
  \/ \E r \in WaitRoles : WaitMutexLock(r)
  \/ ReadySet
  \/ WakeSet
  \/ \E r \in WaitRoles : WaitMutexUnlock(r)
  \/ WaitCheck
  \/ SpuriousWake
  \/ WaitReacquire

\* Every thread that can take a step eventually takes it (a spurious wake-up is
\* never owed); Wait(), Ready() and Wake() are each called on every AsyncWait.
WaitFairness ==
  /\ \A r \in WaitRoles : WF_vars(WaitMutexLock(r)) /\ WF_vars(WaitMutexUnlock(r))
  /\ WF_vars(ReadySet)
  /\ WF_vars(WakeSet)
  /\ WF_vars(WaitCheck)
  /\ WF_vars(WaitReacquire)

WaitSpec == Init /\ [][WaitNext]_vars /\ WaitFairness

\* Passes of both environments: the default thread wakes the root and the
\* sandboxed environment and posts tasks to them, running tasks wake either
\* environment from the thread of their pass; root passes run on the default
\* thread, the others on the pool.
UvPass(t) ==
  \/ \E e \in Envs : AsyncCallbackNonDefaultIsolate(t, e)
  \/ AsyncCallbackDefaultIsolate(t)
  \/ ExecutorLock(t)
  \/ AsyncEntryLock(t)
  \/ TakeQueues(t)
  \/ StartItem(t)
  \/ FinishItem(t)
  \/ ExecutorUnlock(t)
  \/ DecrementAfterPass(t)

UvNext ==
  \E t \in Threads :
    \/ \E e \in Envs :
         \/ SchedulerLock(t, e)
         \/ SchedulerUnlock(t, e)
         \/ WakeIsolate(t, e)
         \/ t = DefaultThread /\ PushTask(t, e)
    \/ UvPass(t)

\* Every Scheduler::Lock section is left; pool threads and the libuv loop of the
\* default thread are scheduled fairly, also for a step that is possible again
\* and again; every Runnable returns.
UvFairness ==
  \A t \in Threads :
    /\ \A e \in Envs : WF_vars(SchedulerUnlock(t, e))
    /\ SF_vars(UvPass(t))

UvSpec == Init /\ [][UvNext]_vars /\ UvFairness

\* The default thread posts work of all four kinds to the sandboxed environment
\* and requests both kinds of interrupt; one pool thread runs the passes and the
\* interrupt callbacks.
SyncNext ==
  \/ SchedulerOps(DefaultThread, Sandbox)
  \/ SyncInterruptOps(DefaultThread, Sandbox)
  \/ \E t \in MemThreads : PassOps(t)

SyncSpec == Init /\ [][SyncNext]_vars

\* One task of the sandboxed environment runs on a pool thread; while it runs the
\* engine calls NearHeapLimitCallback and the GC epilogue with any figures; a
\* reentrant collection frees all of the heap or nothing.
GcNext ==
  \/ SchedulerLock(DefaultThread, Sandbox)
  \/ SchedulerUnlock(DefaultThread, Sandbox)
  \/ npush = 0 /\ PushTask(DefaultThread, Sandbox)
  \/ WakeIsolate(DefaultThread, Sandbox)
  \/ AsyncCallbackNonDefaultIsolate(Worker, Sandbox)
  \/ AsyncCallbackDefaultIsolate(DefaultThread)
  \/ ExecutorLock(Worker)
  \/ AsyncEntryLock(Worker)
  \/ TakeQueues(Worker)
  \/ StartItem(Worker)
  \/ FinishItem(Worker)
  \/ ExecutorUnlock(Worker)
  \/ DecrementAfterPass(Worker)
  \/ \E used \in 0..(EpilogueLimit + 1) : NearHeapLimitCallback(Worker, used)
  \/ \E gc_flags \in GCFlags, used \in 0..(EpilogueLimit + 1), restored \in BOOLEAN :
       \E used_after \in {0, used} :
          EpilogueCall(Worker, gc_flags, used, used_after, restored)

GcSpec == Init /\ [][GcNext]_vars

\* ------------------------------------------------------------ observations
\* AsyncEntry was called on the thread and has not returned
PassStates == {"entry", "take", "taking", "run", "running", "ie_take", "ie_run", "exit"}
\* ... and has not reached the end of its loop (DoneRunning or the memory-limit return)
LoopStates == PassStates \ {"exit"}
Passes(e) == {t \in Threads : cur[t] = e /\ pc[t] \in PassStates}
OpenPasses(e) == {t \in Threads : cur[t] = e /\ pc[t] \in LoopStates}
\* Work items handed to the pool and not yet taken, plus passes inside their loop
Dispatched(e) == thread_pool[e] + Cardinality(OpenPasses(e))
\* No pass of the environment is pending or in progress
Quiescent(e) == thread_pool[e] = 0 /\ Passes(e) = {}
\* Item i waits in one of the three queues of the environment
QueuedItem(e, i) ==
  \E q \in {tasks[e], handle_tasks[e], interrupts[e]} :
    \E k \in 1..Len(q) : q[k].id = i
\* Run() of item i was called
HasRun(e, i) == \E k \in 1..Len(ran[e]) : ran[e][k].id = i
\* The items of queue kind q were run in the order of their pushes
RanInPushOrder(e, q) ==
  \A j, k \in 1..Len(ran[e]) :
    (j < k /\ ran[e][j].q = q /\ ran[e][k].q = q) => ran[e][j].id < ran[e][k].id

\* ------------------------------------------------------------ properties
\* C1 as stated: for every environment at most one AsyncEntry is in progress (called
\* and not yet returned) at any time.
C1_OnePassInProgress == \A e \in Envs : Cardinality(Passes(e)) <= 1

\* C1: for every environment, every pass past Executor::Lock holds the
\* environment's v8::Locker, so passes run one at a time, and at most one pass is
\* dispatched or inside its loop; a second AsyncEntry can only be entered once the
\* previous pass has called DoneRunning, and waits for the Locker until it returns.
C1_PassesSerialized ==
  \A e \in Envs :
    /\ \A t \in Passes(e) : pc[t] # "entry" => locker[e] = t
    /\ Dispatched(e) <= 1

\* A pass has called DoneRunning and not yet returned while the next AsyncEntry
\* of the same environment has been entered on another thread.
C1_SecondPassEntered ==
  \E t1, t2 \in Threads :
    /\ t1 # t2
    /\ cur[t1] = cur[t2]
    /\ pc[t1] = "exit"
    /\ pc[t2] = "entry"

C3_WakeIsolate ==
  [][\A t \in Threads, e \in Envs :
       WakeIsolate(t, e) =>
         IF status[e] = "Running"
           THEN /\ woke'[t] = "false"
                /\ UNCHANGED <<status, uv_ref_count, thread_pool, root_async>>
           ELSE /\ woke'[t] = "true"
                /\ status'[e] = "Running"
                /\ uv_ref_count' = uv_ref_count + 1
                /\ IF Root(e)
                     THEN /\ root_async'.data = e /\ root_async'.sent
                          /\ UNCHANGED thread_pool
                     ELSE /\ thread_pool' = [thread_pool EXCEPT ![e] = @ + 1]
                          /\ root_async'.data = root_async.data
                          /\ root_async'.sent = root_async.sent]_vars

\* A WakeIsolate on the environment returned false while a pass of it runs an item
\* on another thread.
C3_WakeReturnedFalse ==
  \E t, t2 \in Threads, e \in Envs :
    /\ mutex[e] = t
    /\ woke[t] = "false"
    /\ status[e] = "Running"
    /\ t2 # t /\ cur[t2] = e /\ pc[t2] = "running"

\* C4 as stated, its per-queue order: the items of each queue are run in the order
\* in which they were pushed to that queue, also when InterruptEntry runs while an
\* item of the batch is running.
C4_QueueOrder ==
  \A e \in Envs : \A q \in {"interrupt", "handle_task", "task"} : RanInPushOrder(e, q)

\* C5 as stated: every item that waits in a queue of a Running environment (its push
\* was followed by WakeIsolate) is eventually run.
C5_EveryWokenItemRuns ==
  \A i \in 1..MaxPush :
    (QueuedItem(Sandbox, i) /\ status[Sandbox] = "Running") ~> HasRun(Sandbox, i)

\* C5: while an item waits in a queue of a Running environment that has not hit its
\* memory limit, a pass is dispatched or inside its loop, and the item is eventually
\* run unless the environment hits its memory limit.
C5_NoLostWakeup ==
  /\ [](\A i \in 1..MaxPush :
          (QueuedItem(Sandbox, i) /\ status[Sandbox] = "Running"
             /\ ~hit_memory_limit[Sandbox]) => Dispatched(Sandbox) = 1)
  /\ \A i \in 1..MaxPush :
       (QueuedItem(Sandbox, i) /\ status[Sandbox] = "Running")
         ~> (HasRun(Sandbox, i) \/ hit_memory_limit[Sandbox])

\* An item was pushed during a pass that has run earlier items and is about to
\* take the queues again.
C5_PushedDuringPass ==
  \E i \in 1..MaxPush :
    /\ QueuedItem(Sandbox, i)
    /\ status[Sandbox] = "Running"
    /\ pc[Worker] = "take"
    /\ ran[Sandbox] # <<>>

\* C6 as stated: every dispatched pass eventually ends with status back at Waiting.
C6_AlwaysBackToWaiting ==
  (status[Sandbox] = "Running") ~> (status[Sandbox] = "Waiting")

\* C6: at most one pass is dispatched at a time, tasks run in the order of their
\* pushes, and a pass ends with status Waiting unless the environment hit its memory
\* limit, in which case AsyncEntry returns with status left Running.
C6_PassEndsWaitingUnlessLimit ==
  /\ [](/\ Dispatched(Sandbox) <= 1
        /\ RanInPushOrder(Sandbox, "task")
        /\ (Quiescent(Sandbox) /\ ~hit_memory_limit[Sandbox])
             => status[Sandbox] = "Waiting")
  /\ (status[Sandbox] = "Running")
       ~> (status[Sandbox] = "Waiting" \/ hit_memory_limit[Sandbox])

\* All pushes were tasks, they ran in order T1..Tn, and the environment is Waiting
\* with no pass left.
C6_TasksRanInOrder ==
  /\ Len(ran[Sandbox]) = MaxPush
  /\ \A k \in 1..MaxPush : ran[Sandbox][k] = [q |-> "task", id |-> k]
  /\ status[Sandbox] = "Waiting"
  /\ Quiescent(Sandbox)

\* C7 as stated, its second half: once hit_memory_limit is set, no pass starts a
\* further task, handle task or interrupt of the environment.
C7_NothingStartedAfterLimit ==
  [][\A t \in Threads :
       (StartItem(t) \/ InterruptEntryRun(t)) => ~hit_memory_limit[cur[t]]]_vars

\* C8: status changes only from Waiting to Running in a WakeIsolate call and from
\* Running to Waiting in the DoneRunning of AsyncEntry, each made by the thread that
\* holds the Scheduler mutex; the assertion in DoneRunning never fails.
C8_StatusTransitions ==
  [][/\ "DoneRunning" \notin failed'
     /\ \A e \in Envs :
          status'[e] # status[e] =>
            \E t \in Threads :
              /\ mutex[e] = t
              /\ \/ status[e] = "Waiting" /\ status'[e] = "Running" /\ WakeIsolate(t, e)
                 \/ /\ status[e] = "Running" /\ status'[e] = "Waiting"
                    /\ cur[t] = e /\ TakeQueues(t)]_vars

\* A pass has run an item and then called DoneRunning.
C8_DoneRunningReached ==
  \E t \in Threads :
    /\ pc[t] = "exit"
    /\ status[cur[t]] = "Waiting"
    /\ ran[cur[t]] # <<>>

\* C9: Terminate on the root environment fails its assertion and leaves the state of
\* every environment as it was; on another environment it sets terminated, calls
\* TerminateExecution, tells an attached inspector agent to terminate and resets the
\* holder's reference; a second call right after the first changes nothing.
C9_Terminate ==
  [][\A e \in Envs :
       TerminateCall(e) =>
         IF Root(e)
           THEN /\ "Terminate" \in failed'
                /\ UNCHANGED <<status, tasks, handle_tasks, interrupts,
                               sync_interrupts, statics, envstate, engine, hist>>
           ELSE /\ terminated'[e] /\ terminate_execution'[e] /\ ~holder_isolate'[e]
                /\ inspector_agent[e] # "none" => inspector_agent'[e] = "terminated"
                /\ failed' = failed
                /\ (call.op = "Terminate" /\ call.env = e) =>
                     UNCHANGED <<sched, statics, envstate, engine, hist>>]_vars

\* Terminate was called on the sandbox with an inspector agent attached.
C9_SandboxTerminated ==
  /\ call.op = "Terminate"
  /\ call.env = Sandbox
  /\ terminated[Sandbox]
  /\ inspector_agent[Sandbox] = "terminated"
  /\ ~holder_isolate[Sandbox]

\* C10: on a sandbox, AddWeakCallback of a registered handle and RemoveWeakCallback
\* of an unregistered one throw and leave the table as it was; otherwise Add enters
\* exactly that handle with its callback, Remove takes exactly that handle out, and
\* removing the handle just added gives the table back. On the root environment
\* neither throws nor changes the table.
C10_WeakCallbacks ==
  [][\A e \in Envs, h \in Handles :
       LET old == weak_persistents[e]
           new == weak_persistents'[e]
           others == \A x \in DOMAIN old \ {h} : x \in DOMAIN new /\ new[x] = old[x]
           rest == \A e2 \in Envs \ {e} : weak_persistents'[e2] = weak_persistents[e2]
       IN
       /\ \A p \in Params :
            AddWeakCallback(e, h, p) =>
              /\ rest
              /\ IF Root(e) THEN ~call'.threw /\ new = old
                 ELSE IF h \in DOMAIN old THEN call'.threw /\ new = old
                 ELSE /\ ~call'.threw
                      /\ DOMAIN new = DOMAIN old \cup {h}
                      /\ new[h] = <<"fn", p>>
                      /\ others
                      /\ Erase(new, h) = old
       /\ RemoveWeakCallback(e, h) =>
            /\ rest
            /\ IF Root(e) THEN ~call'.threw /\ new = old
               ELSE IF h \notin DOMAIN old THEN call'.threw /\ new = old
               ELSE /\ ~call'.threw
                    /\ DOMAIN new = DOMAIN old \ {h}
                    /\ others]_vars

\* A handle was removed from the sandbox's table while another stays registered.
C10_RemovedOneOfTwo ==
  /\ call.op = "RemoveWeakCallback"
  /\ call.env = Sandbox
  /\ ~call.threw
  /\ DOMAIN weak_persistents[Sandbox] # {}

\* --------------------------------------------------------------- destruction
\* The destructor of the environment is past its loop over weak_persistents
PastWeakLoop(e) ==
  \/ e \notin isolate_map
  \/ \E t \in Threads : /\ destroying[t].env = e
                         /\ pc[t] \in {"dtor_drain", "dtor_dispose", "dtor_erase"}
\* The handles in the sequence are pairwise different
NoRepeat(seq) == \A j, k \in 1..Len(seq) : j # k => seq[j] # seq[k]
Range(seq) == {seq[k] : k \in 1..Len(seq)}

C13_CpuTimeIsHeldTime == \A e \in Envs : GetCpuTime(e) = held_time[e]
\* ------------------------------------------------------------- current_env
\* The environment installed by the innermost live Lock or Scope of the thread,
\* or the value the thread started with
InnermostEnv(t) ==
  LET ds == {d \in 1..Len(scopes[t]) : scopes[t][d].kind \in {"Lock", "Scope"}} IN
  IF ds = {} THEN (IF t = DefaultThread THEN "root" ELSE NoEnv)
  ELSE scopes[t][CHOOSE x \in ds : \A y \in ds : y <= x].env

\* The value current_env had when the scope at depth d was constructed
EnvBelow(t, d) ==
  LET ds == {x \in 1..(d - 1) : scopes[t][x].kind \in {"Lock", "Scope"}} IN
  IF ds = {} THEN (IF t = DefaultThread THEN "root" ELSE NoEnv)
  ELSE scopes[t][CHOOSE x \in ds : \A y \in ds : y <= x].env

\* C19: on every thread current_env is a LIFO stack: it is the environment of the
\* innermost live Lock or Scope of that thread (the thread's initial value when
\* none is live), every live Lock or Scope has saved the value that was current
\* before its construction, which its destruction restores, and no thread's
\* pointer depends on the scopes of another thread.
C19_CurrentEnvIsStack ==
  \A t \in Threads :
    /\ current_env[t] = InnermostEnv(t)
    /\ \A d \in 1..Len(scopes[t]) :
         scopes[t][d].kind \in {"Lock", "Scope"} => scopes[t][d].scope_last = EnvBelow(t, d)

\* C19 happens: the default thread has closed a Lock of root that it had opened
\* inside its Lock of the sandbox and is back in the sandbox, while a pool thread
\* is inside a Scope of the sandbox.
C19_Unwound ==
  /\ Len(scopes[DefaultThread]) = 1
  /\ scopes[DefaultThread][1].kind = "Lock"
  /\ scopes[DefaultThread][1].env = Sandbox
  /\ current_env[DefaultThread] = Sandbox
  /\ cpu_time["root"] > 0
  /\ \E t \in PoolThreads :
       /\ Len(scopes[t]) = 1
       /\ scopes[t][1].kind = "Scope"
       /\ current_env[t] = Sandbox
\* --------------------------------------------------------------- AsyncWait
\* Ready() / Wake() has been called on the live AsyncWait
Called(r) == wpc[r] \in {"locked", "set", "returned"}

\* C14: Wait() never returns before both Ready() and Wake() have been called (and
\* have set their flags), and once both have been called, in either order, before
\* the waiter starts waiting or while it is blocked, Wait() eventually returns.
C14_AsyncWait ==
  /\ [](wpc["wait"] = "returned" =>
          (Called("ready") /\ Called("wake") /\ ready /\ done))
  /\ ((Called("ready") /\ Called("wake") /\ wpc["wait"] # "none")
        ~> (wpc["wait"] = "returned"))

\* C14 happens: the waiter is blocked with only one flag set while the other call
\* is under way.
C14_BlockedOnSecondSignal ==
  /\ wpc["wait"] = "blocked"
  /\ done /\ ~ready
  /\ wpc["wake"] = "returned"
  /\ wpc["ready"] = "locked"
\* ------------------------------------------------------- uv reference count
\* Dispatches whose callback has not finished: work items waiting in the pool, the
\* root work item in root_async.data, and threads between the pick-up of a work
\* item and the decrement that follows AsyncCallbackCommon
Outstanding ==
  thread_pool["root"] + thread_pool["iso"]
  + (IF root_async.data # NoEnv THEN 1 ELSE 0)
  + Cardinality({t \in Threads : pc[t] \in PassStates \cup {"unref"}})

\* C15: uv_ref_count always equals the number of dispatches made by WakeIsolate
\* whose pass has not completed (so it is never negative); while it is positive
\* root_async is referenced; once it is zero, the handle is eventually
\* unreferenced unless a new dispatch raises the counter again.
C15_UvRefCount ==
  /\ [](uv_ref_count = Outstanding)
  /\ [](uv_ref_count > 0 => root_async.ref)
  /\ ((uv_ref_count = 0) ~> (~root_async.ref \/ uv_ref_count > 0))

\* C15 happens: a pool thread has brought the counter back to zero and the handle
\* is still referenced, the wake-up of the default thread being under way.
C15_ZeroStillReferenced ==
  /\ uv_ref_count = 0
  /\ root_async.ref
  /\ root_async.sent
  /\ \A t \in Threads : pc[t] = "idle"

\* Thread t takes the step: it moves on in its pass, it dispatches from inside
\* its Scheduler::Lock section, or (the default thread) libuv runs the callback of
\* a pending uv_async_send
Acts(t) ==
  \/ pc'[t] # pc[t]
  \/ \E e \in Envs : mutex[e] = t /\ status'[e] # status[e]
  \/ t = DefaultThread /\ root_async.sent /\ ~root_async'.sent

\* C16: root_async is referenced and unreferenced only by the default thread: no
\* pool thread ever makes the counter's 0 -> 1 transition (the assertion of
\* IncrementUvRef never fails), whichever threads call WakeIsolate, and a pool
\* thread that brings the counter to zero sends a wake-up and leaves the handle
\* referenced.
C16_HandleOnDefaultThread ==
  /\ []("IncrementUvRef" \notin failed)
  /\ [][root_async'.ref # root_async.ref =>
          (Acts(DefaultThread) /\ \A t \in PoolThreads : ~Acts(t))]_vars
  /\ [][\A t \in PoolThreads :
          (pc[t] = "unref" /\ pc'[t] = "idle" /\ uv_ref_count' = 0) =>
            (root_async'.sent /\ root_async'.ref = root_async.ref)]_vars

\* C16 happens: a task running on a pool thread has dispatched a pass of the root
\* environment by WakeIsolate, raising the counter from 1 to 2.
C16_PoolThreadDispatched ==
  \E t \in PoolThreads :
    /\ pc[t] = "running"
    /\ woke[t] = "true"
    /\ root_async.data = "root"
    /\ uv_ref_count = 2
    /\ root_async.ref
\* -------------------------------------------------- queues at DoneRunning
\* Status of e changes from Running to Waiting in the step
DoneRunningStep(e) == status[e] = "Running" /\ status'[e] = "Waiting"

\* C17 as stated: whenever Status changes from Running to Waiting all four queues
\* are empty, so no sync-interrupt stays queued on a Waiting environment.
C17_FourQueuesEmptyAtDoneRunning ==
  [][\A e \in Envs : DoneRunningStep(e) =>
       (tasks'[e] = <<>> /\ handle_tasks'[e] = <<>> /\ interrupts'[e] = <<>>
        /\ sync_interrupts'[e] = <<>>)]_vars

\* C17 amended: a pass takes tasks, handle_tasks and interrupts and calls
\* DoneRunning only when these three are empty; it never touches sync_interrupts,
\* which only the synchronous interrupt callback takes.
C17_ThreeQueuesEmptyAtDoneRunning ==
  /\ [][\A e \in Envs : DoneRunningStep(e) =>
          (tasks'[e] = <<>> /\ handle_tasks'[e] = <<>> /\ interrupts'[e] = <<>>
           /\ sync_interrupts'[e] = sync_interrupts[e])]_vars
  /\ [][\A t \in Threads : pc[t] = "taking" /\ pc'[t] # "taking" =>
          sync_interrupts' = sync_interrupts]_vars
  /\ [][\A e \in Envs : Len(sync_interrupts'[e]) < Len(sync_interrupts[e]) =>
          \E t \in Threads : pc[t] = "ie_take" /\ ie[t].kind = "sync" /\ cur[t] = e]_vars

\* C17 happens: a pass has called DoneRunning and returns with a sync-interrupt
\* still queued on the environment, which is Waiting.
C17_SyncInterruptLeftOnWaiting ==
  /\ status[Sandbox] = "Waiting"
  /\ sync_interrupts[Sandbox] # <<>>
  /\ \E t \in PoolThreads : pc[t] = "exit" /\ cur[t] = Sandbox
  /\ ran[Sandbox] # <<>>
\* ------------------------------------------------------------ GC epilogue
\* The last epilogue found usage not above the limit
WithinLimit == gc_call.called /\ gc_call.total_memory <= EpilogueLimit

\* Usage is below 80% of the limit
Below80 == 5 * gc_call.total_memory < 4 * EpilogueLimit

\* C18 as stated: with usage not above the limit, the heap limit is ratcheted back
\* only when an expansion is active and usage is below 80% of the limit, and from
\* 80% to 100% the epilogue only requests a moderate notification.
C18_RatchetOnlyBelow80 ==
  WithinLimit =>
    /\ gc_call.ratchet => (gc_call.active /\ Below80)
    /\ ~Below80 => (gc_call.request = "kModerate" /\ ~gc_call.ratchet)

\* C18 amended: with usage not above the limit and the collect-all flag not set, the
\* epilogue ratchets the heap limit exactly when an expansion is active, at any
\* load, and clears the expansion exactly when the engine's limit is back at its
\* initial value; it requests a moderate notification only above 80% of the limit,
\* and always from one unit of rounding above 80%; with the collect-all flag set
\* it does neither. It never terminates and never requests a critical notification.
C18_EpilogueWithinLimit ==
  WithinLimit =>
    /\ gc_call.ratchet = (gc_call.active /\ "collect_all" \notin gc_call.gc_flags)
    /\ gc_call.did_adjust = (gc_call.active /\ ~(gc_call.ratchet /\ gc_call.restored))
    /\ gc_call.request \in {"kNone", "kModerate"}
    /\ gc_call.request = "kModerate" =>
         (5 * gc_call.total_memory > 4 * EpilogueLimit
          /\ "collect_all" \notin gc_call.gc_flags)
    /\ (5 * gc_call.total_memory > 4 * EpilogueLimit + 3
        /\ "collect_all" \notin gc_call.gc_flags) => gc_call.request = "kModerate"
    /\ ~gc_call.terminate

\* C18 happens: an epilogue between 80% and 100% of the limit with an expansion active ratchets
\* the heap limit and requests a moderate notification.
C18_RatchetAbove80 ==
  /\ WithinLimit
  /\ 5 * gc_call.total_memory > 4 * EpilogueLimit
  /\ gc_call.total_memory < EpilogueLimit
  /\ gc_call.active
  /\ gc_call.ratchet
  /\ gc_call.request = "kModerate"
\* ------------------------------------------------ lifetime of a dispatch
\* A dispatch of e is under way: its work item waits for a thread, or a thread is
\* inside AsyncEntry for e
DispatchInFlight(e) ==
  \/ thread_pool[e] > 0
  \/ root_async.data = e
  \/ \E t \in Threads : cur[t] = e /\ pc[t] \in PassStates

\* C20: from a successful WakeIsolate until the dispatched AsyncEntry has returned
\* the destructor of the environment has not started, whatever other references
\* are released meanwhile; the counter is decremented only by a thread that has
\* released the reference of its dispatch, and has finished the destructor if that
\* reference was the last one.
C20_DispatchKeepsAlive ==
  /\ [](\A e \in Envs : DispatchInFlight(e) => ~snapshot[e].started)
  /\ [](\A t \in Threads : pc[t] = "unref" => destroying[t].env = NoEnv)
  /\ [][uv_ref_count' < uv_ref_count =>
          \E t \in Threads : pc[t] = "unref" /\ pc'[t] = "idle"]_vars

\* C20 happens: a task of the sandboxed environment runs while the holder and the
\* calling code have released their references: the dispatch holds the only one.
C20_OnlyDispatchReference ==
  /\ owners[Sandbox] = 0
  /\ ~holder_isolate[Sandbox]
  /\ StrongRefs(Sandbox) = 1
  /\ \E t \in PoolThreads : cur[t] = Sandbox /\ pc[t] = "running"
  /\ ~snapshot[Sandbox].started
\* ------------------------------------------------------ root_async.data
\* C21: whenever WakeIsolate dispatches the root environment the data slot of
\* root_async is empty (the assertion of WakeIsolate never fails): the root
\* scheduler is Waiting only when the default thread's callback has consumed the
\* slot, also while pool threads send wake-ups on the same handle.
C21_RootSlotEmptyAtDispatch ==
  /\ "root_async.data" \notin failed
  /\ status["root"] = "Waiting" => root_async.data = NoEnv

\* C21 happens: the root environment is dispatched again after an earlier root pass
\* ran a task, while a pool thread is about to decrement the counter and send its
\* own wake-up.
C21_RootDispatchedAgain ==
  /\ root_async.data = "root"
  /\ status["root"] = "Running"
  /\ ran["root"] # <<>>
  /\ \E t \in PoolThreads : pc[t] = "unref"
\* ------------------------------------------------------------ CPU timers
\* The assertions of the CpuTimer constructor, destructor, Pause and Resume
CpuTimerAsserts ==
  {"CpuTimer::CpuTimer", "CpuTimer::~CpuTimer", "CpuTimer::Pause", "CpuTimer::Resume"}

\* C22: the assertions of the CpuTimer constructor, destructor, Pause and Resume
\* never fail, for every well-nested use of Lock and Unlock on the threads,
\* including a Lock opened on a thread that is inside an Unlock.
C22_CpuTimerAssertsHold == failed \cap CpuTimerAsserts = {}
\* ------------------------------------------------------------ wall timer
\* Some thread has a constructed Executor::Lock of e
LockExists(e) ==
  \E t \in Threads : \E d \in 1..Len(scopes[t]) :
    scopes[t][d].kind = "Lock" /\ scopes[t][d].acquired /\ scopes[t][d].env = e

\* C25: while the process runs, whenever an Executor::Lock of an environment
\* exists the environment has an active wall timer, also when a second thread
\* constructs its Lock while the first thread's Lock is alive and outlives it.
C25_LockedHasWallTimer ==
  ProcessAlive => \A e \in Envs : LockExists(e) => wall_timer[e] # NoTimer
\* ------------------------------------------------- stop at the memory limit
\* A pass of e takes the return of `if (hit_memory_limit) return;` in the step
StopsAtLimit(t, e) == cur[t] = e /\ pc[t] = "running" /\ pc'[t] = "exit"

\* A pass of e has stopped at the memory limit: the environment is Running with
\* the flag set and no pass is dispatched or inside its loop
StoppedAtLimit(e) ==
  hit_memory_limit[e] /\ status[e] = "Running" /\ Dispatched(e) = 0

\* C23: a pass that stops because hit_memory_limit is set returns without
\* DoneRunning and drops the rest of its batch; from then on Status stays Running,
\* every WakeIsolate returns false, no pass starts and no item of the environment
\* is run, whatever is pushed.
C23_StoppedForever ==
  /\ [][\A t \in Threads : \A e \in Envs : StopsAtLimit(t, e) =>
          (hit_memory_limit[e] /\ batch'[t] = EmptyBatch /\ StoppedAtLimit(e)')]_vars
  /\ [][\A e \in Envs : StoppedAtLimit(e) =>
          (StoppedAtLimit(e)' /\ ran'[e] = ran[e]
           /\ \A t \in Threads : (mutex[e] = t /\ woke'[t] # woke[t]) => woke'[t] # "true")]_vars

\* C23 happens: after the stop a task was pushed and WakeIsolate returned false;
\* the worker is idle again and the task stays queued.
C23_PushedAfterStop ==
  /\ StoppedAtLimit(Sandbox)
  /\ \A t \in Threads : pc[t] = "idle"
  /\ tasks[Sandbox] # <<>>
  /\ woke[DefaultThread] = "false"
  /\ Len(ran[Sandbox]) < npush - Len(tasks[Sandbox])
\* ------------------------------------------------------------ interrupts
\* Item i waits in the interrupts queue of the environment
QueuedInterrupt(e, i) == \E k \in 1..Len(interrupts[e]) : interrupts[e][k].id = i

\* InterruptEntry returns on thread t in the step
InterruptEntryReturns(t) == pc[t] \in {"ie_take", "ie_run"} /\ pc'[t] = "running"

\* C24 as stated, its second half: every interrupt pushed under the protocol (its
\* push is followed by WakeIsolate, so the environment is Running) is run.
C24_EveryInterruptRuns ==
  \A i \in 1..MaxPush :
    (QueuedInterrupt(Sandbox, i) /\ status[Sandbox] = "Running") ~> HasRun(Sandbox, i)

\* C24 amended: the assertion of InterruptIsolate never fails when it is called
\* only after WakeIsolate returned false in the same section; no item is run
\* twice; InterruptEntry returns only when it found its queue empty; and an
\* interrupt pushed under the protocol is run unless the environment hits its
\* memory limit.
C24_InterruptProtocol ==
  /\ []("InterruptIsolate" \notin failed)
  /\ [](\A e \in Envs : \A j, k \in 1..Len(ran[e]) : ran[e][j].id = ran[e][k].id => j = k)
  /\ [][\A t \in Threads : (InterruptEntryReturns(t) /\ ie[t].kind = "async") =>
          interrupts'[cur[t]] = <<>>]_vars
  /\ \A i \in 1..MaxPush :
       (QueuedInterrupt(Sandbox, i) /\ status[Sandbox] = "Running")
         ~> (HasRun(Sandbox, i) \/ hit_memory_limit[Sandbox])

\* C24 happens: InterruptEntry, called by the engine while an item runs, has run
\* an interrupt that was pushed after the pass took its batch, and is about to
\* find the queue empty.
C24_RunByInterruptEntry ==
  /\ pc[Worker] = "ie_take"
  /\ ie[Worker].kind = "async"
  /\ interrupts[Sandbox] = <<>>
  /\ Len(ran[Sandbox]) >= 2
  /\ ran[Sandbox][Len(ran[Sandbox])].q = "interrupt"
  /\ ~hit_memory_limit[Sandbox]
====
